---- MODULE Spec2Model ----
(***************************************************************************)
(* Session and turn orchestration of fpc-server-rs: the peer registry      *)
(* (vault.rs), the connection handler and the message handlers, the        *)
(* matchmaking dispatcher and the per-game turn driver (main.rs).          *)
(*                                                                         *)
(* Every handler, every dispatcher tick and every locked section of the    *)
(* turn driver runs under the registry RwLock or the peer-map mutex, so    *)
(* each is one atomic action.                                              *)
(*                                                                         *)
(* Time is kept as ages: an Instant t is stored as now - t, in seconds,    *)
(* and Tick lets one second pass.  An age stops growing once it is past    *)
(* every threshold the code compares it with.                              *)
(*                                                                         *)
(* A peer's outbound queue tx is drained by the connection's writer        *)
(* sub-task; tx[a] holds the frames the last step enqueued for a, in       *)
(* enqueue order.                                                          *)
(***************************************************************************)
EXTENDS Integers, Sequences, FiniteSets, TLC

\* ------------------------------------------------------------ constants
PROTO_VER == "0"
SERV_NAME == "fpc-server-rs"
SERV_VER == "0.0.1"
HB_WAIT_TIMEOUT == 2
HB_READY_TIMEOUT == 5
GS_INIT_PAUSE == 10
PLAYER_TIMER == 60
PLAYER_TIME_2 == 5
\* the dispatcher groups peers by four (tmp_peers.len() == 4)
GROUP == 4

\* ------------------------------------------------------------ bounds
\* connections that may end during a run
MaxDisconnects == 1
\* items the move signal channel may hold (the channel is unbounded)
MaxSignals == 2
\* seconds between two instants the clock is observed at
Quantum == 5

\* strings the random generator may return (it returns any 32 alphanumerics)
MaxTokens == 4

\* operations each task runs, one after the other
MaxOps == 1

\* One connection per address: a table's worth of clients and one more.
Addrs == 1..(GROUP + 1)
\* the addresses of the clients that play
Seats == 1..GROUP
\* protocol versions a client may name in Connect.Client
ProtoVers == {"0", "9"}
\* the name the client at address a registers
NameOf(a) == a
\* the Move variants a client may send
MoveKinds == {"Basic", "Castling", "NoMove"}

\* Color, in the seat order the dispatcher assigns (red, blue, yellow, green)
Colors == <<"Red", "Blue", "Yellow", "Green">>
Color == {"Red", "Blue", "Yellow", "Green"}
\* vault::PlayerState
PlayerState == {"NoState", "Check", "Checkmate", "Stalemate", "Lost"}

\* Option<T>
None == << >>
Some(x) == <<x>>
is_some(o) == o # << >>
unwrap(o) == o[1]

Min(x, y) == IF x < y THEN x ELSE y
Max(x, y) == IF x < y THEN y ELSE x

\* ------------------------------------------------------------ state
VARIABLES
    conn,         \* handle_connection per address: "none", "open", "closed"
    peers,        \* Vault.peers: the addresses in the primary map
    idle,         \* Vault.idle bucket
    mm_queue,     \* Vault.mm_queue bucket
    hb_wait,      \* Vault.hb_wait bucket
    hb_ready,     \* Vault.hb_ready bucket
    state,        \* Peer.state
    player_name,  \* Peer.player_name
    client_info,  \* Peer.client_info
    tx,           \* Peer.tx: frames enqueued by the last step
    games,        \* Vault.games: game id g is games[g + 1]
    game_id,      \* matchmaking_dispatcher's next game id
    drivers,      \* the move_call_dispatch task of game g is drivers[g + 1]
    reconnect,    \* Vault.reconnect: the game id each reconnect id maps to
    rng,          \* thread_rng: the strings random_string() returns next, in order
    task          \* per task: its operation, its lock steps to come, the locks it holds

vars == <<conn, peers, idle, mm_queue, hb_wait, hb_ready, state, player_name,
          client_info, tx, games, game_id, drivers, reconnect, rng, task>>

buckets == <<idle, mm_queue, hb_wait, hb_ready>>
peer_fields == <<state, player_name, client_info>>
game_side == <<games, game_id, drivers, reconnect, rng, task>>

\* ------------------------------------------------------------ PeerState
Unknown == [k |-> "Unknown", since |-> 0, color |-> "-", game |-> 0]
Idle == [k |-> "Idle", since |-> 0, color |-> "-", game |-> 0]
MMQueue == [k |-> "MMQueue", since |-> 0, color |-> "-", game |-> 0]
HeartbeatWait(age) == [k |-> "HeartbeatWait", since |-> age, color |-> "-", game |-> 0]
HeartbeatReady(age) == [k |-> "HeartbeatReady", since |-> age, color |-> "-", game |-> 0]
Game(c, g) == [k |-> "Game", since |-> 0, color |-> c, game |-> g]

is_unknown(s) == s.k = "Unknown"
\* a faulty is_mm_queue: an Idle peer passes for a queued one
is_mm_queue_or_idle(s) == s.k \in {"MMQueue", "Idle"}
is_mm_queue(s) == s.k = "MMQueue"
is_hb_wait(s) == s.k = "HeartbeatWait"
\* a faulty is_hb_ready: an Idle peer passes for a ready one
is_hb_ready_or_idle(s) == s.k \in {"HeartbeatReady", "Idle"}
is_hb_ready(s) == s.k = "HeartbeatReady"
is_game(s) == s.k = "Game"
get_hb_wait_since(s) == IF s.k = "HeartbeatWait" THEN Some(s.since) ELSE None
get_hb_ready_since(s) == IF s.k = "HeartbeatReady" THEN Some(s.since) ELSE None

\* ------------------------------------------------------------ frames (Pdu)
GetInfoOk == [pdu |-> "handshake.get_info.ok", supported_version |-> <<PROTO_VER>>]
\* a faulty Connect.Ok: the server does not name itself
ConnectOk_unnamed == [pdu |-> "handshake.connect.ok", name |-> "", version |-> ""]
ConnectOk == [pdu |-> "handshake.connect.ok", name |-> SERV_NAME, version |-> SERV_VER]
UnsupportedProtocolVersion ==
    [pdu |-> "handshake.connect.error.unsupported_protocol_version"]
PlayerRegisterOk == [pdu |-> "matchmaking_queue.player_register.ok"]
\* a faulty AlreadyRegistered: the handshake error is sent in its place
AlreadyRegistered_as_handshake == [pdu |-> "matchmaking_queue.player_register.error.handshake"]
AlreadyRegistered == [pdu |-> "matchmaking_queue.player_register.error.already_registered"]
HandshakeError == [pdu |-> "matchmaking_queue.player_register.error.handshake"]
heartbeat_pdu == [pdu |-> "matchmaking_queue.heartbeat_check"]
kick_pdu == [pdu |-> "matchmaking_queue.player_kick", discritpion |-> "Heartbeat timeout"]
forbidden_move_pdu ==
    [pdu |-> "game_session.move.error.forbidden_move", description |-> "not allowed move"]

\* ------------------------------------------------------------ outbound queues
NoTx == [a \in Addrs |-> << >>]
\* the receiver half of a's outbound channel is alive until handle_connection returns
rx_alive(a) == conn[a] = "open"
\* a faulty unbounded_send: the frame is enqueued twice
unbounded_send_twice(q, a, msg) ==
    IF rx_alive(a) THEN [q EXCEPT ![a] = Append(Append(@, msg), msg)] ELSE q

\* Tx::unbounded_send on the queue map q: Ok iff the receiver is alive
unbounded_send(q, a, msg) == IF rx_alive(a) THEN [q EXCEPT ![a] = Append(@, msg)] ELSE q

\* a faulty send_msg_to!: the frame is dropped
send_msg_to_nobody(a, msg) == tx' = NoTx

\* send_msg_to!: look the address up in the primary map, then enqueue
send_msg_to(a, msg) ==
    IF a \in peers THEN tx' = unbounded_send(NoTx, a, msg) ELSE tx' = NoTx

\* ------------------------------------------------------------ Game
\* Game::players: the order broadcast visits the seats in
players == <<"Red", "Green", "Blue", "Yellow">>

\* the Game the dispatcher constructs for four ready peers
NewGame(id, red, blue, yellow, green, reconnect_id) ==
    [id |-> id,
     reconnect_id |-> reconnect_id,
     peer |-> [c \in Color |-> CASE c = "Red" -> red [] c = "Blue" -> blue
                                 [] c = "Yellow" -> yellow [] OTHER -> green],
     state |-> [c \in Color |-> "NoState"],
     time_remaining |-> [c \in Color |-> PLAYER_TIMER],
     who_move |-> None,
     signal |-> 0,
     receiver |-> TRUE]

\* the move_call_dispatch task as spawned: asleep for GS_INIT_PAUSE
NewDriver == [pc |-> "sleep", slept |-> 0, player_time_remaining |-> 0]

WhoMove(c) == [color |-> c, since |-> 0, complete |-> None]
\* Complete: the field at is written and never read
Complete(mv) == [mv |-> mv]

\* Game::validate_player_move
validate_player_move(gm, color) ==
    IF is_some(gm.who_move)
    THEN unwrap(gm.who_move).color = color
    ELSE FALSE

\* ------------------------------------------------------------ connections
\* Vault::try_insert_peer
try_insert_peer(a) ==
    IF a \in peers
    THEN UNCHANGED <<peers, state, player_name, client_info>>
    ELSE /\ peers' = peers \cup {a}
         /\ state' = [state EXCEPT ![a] = Unknown]
         /\ player_name' = [player_name EXCEPT ![a] = None]
         /\ client_info' = [client_info EXCEPT ![a] = None]

\* handle_connection, up to the start of its two sub-tasks
handle_connection(a) ==
    /\ conn[a] = "none"
    /\ conn' = [conn EXCEPT ![a] = "open"]
    /\ try_insert_peer(a)
    /\ tx' = NoTx
    /\ UNCHANGED <<buckets, game_side>>

\* Vault::remove_peer leaving the removed peer's state as it was
remove_peer_keeps_state(a) ==
    IF a \in peers
    THEN /\ peers' = peers \ {a}
         /\ UNCHANGED state
    ELSE UNCHANGED <<peers, state>>

\* Vault::remove_peer
remove_peer(a) ==
    IF a \in peers
    THEN /\ peers' = peers \ {a}
         /\ state' = [state EXCEPT ![a] = Unknown]
    ELSE UNCHANGED <<peers, state>>

\* handle_connection once either sub-task has finished: remove_peer, then the
\* function returns and drops the receiver half of the outbound queue (no
\* suspension point lies between the two)
Disconnect(a) ==
    /\ conn[a] = "open"
    /\ Cardinality({b \in Addrs : conn[b] = "closed"}) < MaxDisconnects
    /\ conn' = [conn EXCEPT ![a] = "closed"]
    /\ remove_peer(a)
    /\ tx' = NoTx
    /\ UNCHANGED <<buckets, player_name, client_info, game_side>>

\* handle_connection for an address that is already in the primary map:
\* try_insert_peer returns Err and drops the new Peer with the only sender of
\* the new outbound queue, the handler goes on, its writer sub-task ends at
\* once on the closed queue, and remove_peer(addr) runs.  The connection that
\* was there stays open.
handle_connection_duplicate(a) ==
    /\ conn[a] = "open"
    /\ a \in peers
    /\ remove_peer(a)
    /\ tx' = NoTx
    /\ UNCHANGED <<conn, buckets, player_name, client_info, game_side>>

\* ------------------------------------------------------------ handlers
process_hs_get_info(a) ==
    /\ conn[a] = "open"
    /\ send_msg_to(a, GetInfoOk)
    /\ UNCHANGED <<conn, peers, buckets, peer_fields, game_side>>

\* a faulty process_hs_connect: the peer becomes Idle and is not put into the
\* Idle bucket
process_hs_connect_unindexed(a, name, version, proto_ver) ==
    /\ conn[a] = "open"
    /\ IF proto_ver = PROTO_VER
       THEN IF a \in peers /\ is_unknown(state[a])
            THEN /\ tx' = unbounded_send(NoTx, a, ConnectOk)
                 /\ state' = [state EXCEPT ![a] = Idle]
                 /\ client_info' = [client_info EXCEPT ![a] =
                        Some([name |-> name, version |-> version, protocol |-> proto_ver])]
                 /\ UNCHANGED idle
            ELSE /\ tx' = NoTx
                 /\ UNCHANGED <<state, client_info, idle>>
       ELSE /\ send_msg_to(a, UnsupportedProtocolVersion)
            /\ UNCHANGED <<state, client_info, idle>>
    /\ UNCHANGED <<conn, peers, mm_queue, hb_wait, hb_ready, player_name, game_side>>

process_hs_connect(a, name, version, proto_ver) ==
    /\ conn[a] = "open"
    /\ IF proto_ver = PROTO_VER
       THEN IF a \in peers /\ is_unknown(state[a])
            THEN /\ tx' = unbounded_send(NoTx, a, ConnectOk)
                 /\ state' = [state EXCEPT ![a] = Idle]
                 /\ client_info' = [client_info EXCEPT ![a] =
                        Some([name |-> name, version |-> version, protocol |-> proto_ver])]
                 /\ idle' = idle \cup {a}
            ELSE /\ tx' = NoTx
                 /\ UNCHANGED <<state, client_info, idle>>
       ELSE /\ send_msg_to(a, UnsupportedProtocolVersion)
            /\ UNCHANGED <<state, client_info, idle>>
    /\ UNCHANGED <<conn, peers, mm_queue, hb_wait, hb_ready, player_name, game_side>>

\* a faulty process_mm_player_reg: the peer is queued and its name is not stored
process_mm_player_reg_unnamed(a, name) ==
    /\ conn[a] = "open"
    /\ a \in peers
    /\ CASE state[a].k = "Idle" ->
              /\ tx' = unbounded_send(NoTx, a, PlayerRegisterOk)
              /\ state' = [state EXCEPT ![a] = MMQueue]
              /\ mm_queue' = mm_queue \cup {a}
              /\ UNCHANGED player_name
         [] state[a].k \in {"HeartbeatReady", "HeartbeatWait", "MMQueue", "Game"} ->
              /\ tx' = unbounded_send(NoTx, a, AlreadyRegistered)
              /\ UNCHANGED <<player_name, state, mm_queue>>
         [] OTHER ->
              /\ tx' = unbounded_send(NoTx, a, HandshakeError)
              /\ UNCHANGED <<player_name, state, mm_queue>>
    /\ UNCHANGED <<conn, peers, idle, hb_wait, hb_ready, client_info, game_side>>

process_mm_player_reg(a, name) ==
    /\ conn[a] = "open"
    /\ a \in peers
    /\ CASE state[a].k = "Idle" ->
              /\ tx' = unbounded_send(NoTx, a, PlayerRegisterOk)
              /\ player_name' = [player_name EXCEPT ![a] = Some(name)]
              /\ state' = [state EXCEPT ![a] = MMQueue]
              /\ mm_queue' = mm_queue \cup {a}
         [] state[a].k \in {"HeartbeatReady", "HeartbeatWait", "MMQueue", "Game"} ->
              /\ tx' = unbounded_send(NoTx, a, AlreadyRegistered)
              /\ UNCHANGED <<player_name, state, mm_queue>>
         [] OTHER ->
              /\ tx' = unbounded_send(NoTx, a, HandshakeError)
              /\ UNCHANGED <<player_name, state, mm_queue>>
    /\ UNCHANGED <<conn, peers, idle, hb_wait, hb_ready, client_info, game_side>>

\* a faulty process_mm_player_leave: a seated peer leaves its game too
process_mm_player_leave_from_game(a) ==
    /\ conn[a] = "open"
    /\ a \in peers
    /\ IF state[a].k \in {"MMQueue", "HeartbeatWait", "HeartbeatReady", "Game"}
       THEN state' = [state EXCEPT ![a] = Idle]
       ELSE UNCHANGED state
    /\ tx' = NoTx
    /\ UNCHANGED <<conn, peers, buckets, player_name, client_info, game_side>>

process_mm_player_leave(a) ==
    /\ conn[a] = "open"
    /\ a \in peers
    /\ IF state[a].k \in {"MMQueue", "HeartbeatWait", "HeartbeatReady"}
       THEN state' = [state EXCEPT ![a] = Idle]
       ELSE UNCHANGED state
    /\ tx' = NoTx
    /\ UNCHANGED <<conn, peers, buckets, player_name, client_info, game_side>>

\* a faulty process_mm_heartbeat_check: an Idle peer's reply counts as well
process_mm_heartbeat_check_when_idle(a) ==
    /\ conn[a] = "open"
    /\ a \in peers
    /\ IF is_hb_wait(state[a]) \/ state[a].k = "Idle"
       THEN /\ state' = [state EXCEPT ![a] = HeartbeatReady(0)]
            /\ hb_ready' = hb_ready \cup {a}
       ELSE UNCHANGED <<state, hb_ready>>
    /\ tx' = NoTx
    /\ UNCHANGED <<conn, peers, idle, mm_queue, hb_wait, player_name, client_info, game_side>>

process_mm_heartbeat_check(a) ==
    /\ conn[a] = "open"
    /\ a \in peers
    /\ IF is_hb_wait(state[a])
       THEN /\ state' = [state EXCEPT ![a] = HeartbeatReady(0)]
            /\ hb_ready' = hb_ready \cup {a}
       ELSE UNCHANGED <<state, hb_ready>>
    /\ tx' = NoTx
    /\ UNCHANGED <<conn, peers, idle, mm_queue, hb_wait, player_name, client_info, game_side>>

\* a faulty process_move_make: a move it rejects is recorded all the same
process_move_make_records_rejected(a, mv) ==
    /\ conn[a] = "open"
    /\ a \in peers
    /\ IF mv \in {"Basic", "Capture", "Promotion", "Castling"} /\ is_game(state[a])
       THEN LET g == state[a].game
                gm == games[g + 1]
                color == state[a].color
            IN  IF validate_player_move(gm, color)
                THEN /\ gm.receiver => gm.signal < MaxSignals
                     /\ games' = [games EXCEPT ![g + 1] =
                            [gm EXCEPT !.who_move = Some([unwrap(gm.who_move) EXCEPT
                                          !.complete = Some(Complete(mv))]),
                                       !.signal = IF gm.receiver THEN @ + 1 ELSE @]]
                     /\ tx' = NoTx
                ELSE /\ tx' = unbounded_send(NoTx, a, forbidden_move_pdu)
                     /\ games' = [games EXCEPT ![g + 1] =
                            IF is_some(gm.who_move)
                            THEN [gm EXCEPT !.who_move = Some([unwrap(gm.who_move) EXCEPT
                                               !.complete = Some(Complete(mv))])]
                            ELSE gm]
       ELSE /\ tx' = NoTx
            /\ UNCHANGED games
    /\ UNCHANGED <<conn, peers, buckets, peer_fields, game_id, reconnect, rng, task, drivers>>

\* a faulty process_move_make: the accepted move is recorded and no signal is sent
process_move_make_unsignalled(a, mv) ==
    /\ conn[a] = "open"
    /\ a \in peers
    /\ IF mv \in {"Basic", "Capture", "Promotion", "Castling"} /\ is_game(state[a])
       THEN LET g == state[a].game
                gm == games[g + 1]
                color == state[a].color
            IN  IF validate_player_move(gm, color)
                THEN /\ games' = [games EXCEPT ![g + 1] =
                            [gm EXCEPT !.who_move = Some([unwrap(gm.who_move) EXCEPT
                                          !.complete = Some(Complete(mv))])]]
                     /\ tx' = NoTx
                ELSE /\ tx' = unbounded_send(NoTx, a, forbidden_move_pdu)
                     /\ UNCHANGED games
       ELSE /\ tx' = NoTx
            /\ UNCHANGED games
    /\ UNCHANGED <<conn, peers, buckets, peer_fields, game_id, reconnect, rng, task, drivers>>

process_move_make(a, mv) ==
    /\ conn[a] = "open"
    /\ a \in peers
    /\ IF mv \in {"Basic", "Capture", "Promotion", "Castling"} /\ is_game(state[a])
       THEN LET g == state[a].game
                gm == games[g + 1]
                color == state[a].color
            IN  IF validate_player_move(gm, color)
                THEN /\ gm.receiver => gm.signal < MaxSignals
                     /\ games' = [games EXCEPT ![g + 1] =
                            [gm EXCEPT !.who_move = Some([unwrap(gm.who_move) EXCEPT
                                          !.complete = Some(Complete(mv))]),
                                       !.signal = IF gm.receiver THEN @ + 1 ELSE @]]
                     /\ tx' = NoTx
                ELSE /\ tx' = unbounded_send(NoTx, a, forbidden_move_pdu)
                     /\ UNCHANGED games
       ELSE /\ tx' = NoTx
            /\ UNCHANGED games
    /\ UNCHANGED <<conn, peers, buckets, peer_fields, game_id, reconnect, rng, task, drivers>>

\* ------------------------------------------------------------ time
\* an age dt seconds later; it stops growing past cap
Older(age, dt, cap) == Min(age + dt, cap)

\* the timer of game g's current turn: sleep(player_time_remaining + PLAYER_TIME_2)
move_timeout(g) == drivers[g + 1].player_time_remaining + PLAYER_TIME_2

\* dt seconds pass
Tick(dt) ==
    /\ state' = [a \in Addrs |->
          CASE is_hb_wait(state[a]) ->
                 HeartbeatWait(Older(state[a].since, dt, HB_WAIT_TIMEOUT + 1))
            [] is_hb_ready(state[a]) ->
                 HeartbeatReady(Older(state[a].since, dt, HB_READY_TIMEOUT + 1))
            [] OTHER -> state[a]]
    /\ drivers' = [i \in DOMAIN drivers |->
          IF drivers[i].pc = "sleep"
          THEN [drivers[i] EXCEPT !.slept = Older(@, dt, GS_INIT_PAUSE)]
          ELSE drivers[i]]
    /\ games' = [i \in DOMAIN games |->
          IF is_some(games[i].who_move)
          THEN [games[i] EXCEPT !.who_move =
                   Some([unwrap(@) EXCEPT !.since = Older(@, dt, move_timeout(i - 1))])]
          ELSE games[i]]
    /\ <<state', drivers', games'>> # <<state, drivers, games>>
    /\ tx' = NoTx
    /\ UNCHANGED <<conn, peers, buckets, player_name, client_info, game_id, reconnect, rng, task>>

\* ------------------------------------------------------------ matchmaking dispatcher
\* the orders a HashMap may iterate the entries S in
Orders(S) ==
    {f \in [1..Cardinality(S) -> S] : \A i, j \in DOMAIN f : f[i] = f[j] => i = j}

\* the orders Pass D may meet the entries S in.  Fewer than GROUP entries close
\* no group, whatever their order: the empty order stands for all of them.
seat_orders(S) == IF Cardinality(S) < GROUP THEN {<< >>} ELSE Orders(S)

\* a faulty Pass A: it takes every peer of the primary map, whatever its state
collect_peers == peers

\* Pass A: the entries of the MMQueue bucket whose peer is in state MMQueue
collect_mm_queue == {a \in mm_queue : is_mm_queue(state[a])}

\* a faulty hb_wait_timed_out: the bound itself counts as timed out
hb_wait_timed_out_at_bound(s) ==
    is_some(get_hb_wait_since(s)) /\ unwrap(get_hb_wait_since(s)) >= HB_WAIT_TIMEOUT

\* Pass B: wait_time > HB_WAIT_TIMEOUT
hb_wait_timed_out(s) ==
    is_some(get_hb_wait_since(s)) /\ unwrap(get_hb_wait_since(s)) > HB_WAIT_TIMEOUT

\* a faulty hb_ready_timed_out: the bound itself counts as timed out
hb_ready_timed_out_at_bound(s) ==
    is_some(get_hb_ready_since(s)) /\ unwrap(get_hb_ready_since(s)) >= HB_READY_TIMEOUT

\* a faulty hb_ready_timed_out: it reads the instant of the HeartbeatWait state
hb_ready_timed_out_reads_wait(s) ==
    is_some(get_hb_wait_since(s)) /\ unwrap(get_hb_wait_since(s)) > HB_READY_TIMEOUT

\* Pass C: wait_time > HB_READY_TIMEOUT
hb_ready_timed_out(s) ==
    is_some(get_hb_ready_since(s)) /\ unwrap(get_hb_ready_since(s)) > HB_READY_TIMEOUT

\* how many groups the collected entries fill: one per GROUP pushed
full_groups(n) == n \div GROUP

\* random_string(), called after skip earlier calls: the generator's next string
random_string(skip) == rng[skip + 1]

\* the four reconnect ids a new Game gets, drawn in the order red, blue,
\* yellow, green after skip earlier draws of the same tick
reconnect_ids(skip) ==
    [c \in Color |-> random_string(skip + (CHOOSE j \in 1..GROUP : Colors[j] = c) - 1)]

\* reconnect_lock.insert of the four ids of game id: HashMap::insert replaces
\* the value of a key that is already present
insert_reconnect(map, ids, id) ==
    [k \in DOMAIN map \cup {ids[c] : c \in Color} |->
        IF k \in {ids[c] : c \in Color} THEN id ELSE map[k]]

\* a run of the generator in which no string repeats: as many strings as the
\* clients of Addrs use, one table's
fresh_strings == [i \in 1..GROUP |-> i]
\* the reconnect ids drawn from fresh_strings
fresh_ids == [c \in Color |-> CHOOSE j \in 1..GROUP : Colors[j] = c]

\* game_init_pdu!: the macro's parameters are ($red, $green, $blue, $yellow)
game_init_pdu(pause_time, reconnect_id, red, green, blue, yellow) ==
    [pdu |-> "game_session.init",
     countdown |-> pause_time,
     reconnect_id |-> reconnect_id,
     start_positions |->
        [red |-> [player_name |-> red, left_rook |-> "d1"],
         blue |-> [player_name |-> green, left_rook |-> "a11"],
         yellow |-> [player_name |-> blue, left_rook |-> "k14"],
         green |-> [player_name |-> yellow, left_rook |-> "n4"]]]

\* the Init frame that carries reconnect_id, of the table seated from red, blue,
\* yellow, green (names nm)
init_pdu_of(nm, reconnect_id, red, blue, yellow, green) ==
    LET red_name == unwrap(nm[red])
        blue_name == unwrap(nm[blue])
        yellow_name == unwrap(nm[red])
        green_name == unwrap(nm[green])
    IN  game_init_pdu(GS_INIT_PAUSE, reconnect_id, red_name, green_name, blue_name, yellow_name)

\* one tick of matchmaking_dispatcher: passes A to D under the registry write lock
matchmaking_dispatcher ==
    LET collectedA == collect_mm_queue
    IN
    \E promoted \in {P \in SUBSET collectedA :
                       Cardinality(P) = GROUP * full_groups(Cardinality(collectedA))} :
    LET \* Pass A: MMQueue => HeartbeatWait
        sentA == {a \in promoted : rx_alive(a)}
        stA == [a \in Addrs |-> IF a \in sentA THEN HeartbeatWait(0) ELSE state[a]]
        txA == [a \in Addrs |-> IF a \in sentA THEN <<heartbeat_pdu>> ELSE << >>]
        hb_waitA == hb_wait \cup sentA
        \* Pass B: HeartbeatWait => Idle
        kicked == {a \in hb_waitA : hb_wait_timed_out(stA[a]) /\ rx_alive(a)}
        stB == [a \in Addrs |-> IF a \in kicked THEN Idle ELSE stA[a]]
        txB == [a \in Addrs |-> IF a \in kicked THEN Append(txA[a], kick_pdu) ELSE txA[a]]
        \* Pass C: HeartbeatReady => MMQueue
        requeued == {a \in hb_ready : hb_ready_timed_out(stB[a])}
        stC == [a \in Addrs |-> IF a \in requeued THEN MMQueue ELSE stB[a]]
        \* Pass D: HeartbeatReady => Game
        collectedD == {a \in hb_ready : is_hb_ready(stC[a])}
    IN
    \E ord \in seat_orders(collectedD) :
    LET n == full_groups(Len(ord))
        seated == {ord[j] : j \in 1..(GROUP * n)}
        pos(a) == CHOOSE j \in 1..Len(ord) : ord[j] = a
        table(a) == (pos(a) - 1) \div GROUP
        red(t) == ord[GROUP * t + 1]
        blue(t) == ord[GROUP * t + 2]
        yellow(t) == ord[GROUP * t + 3]
        green(t) == ord[GROUP * t + 4]
        \* game_id.wrapping_add(1) on a u64: no run here creates 2^64 games
        gid(t) == game_id + t
        ids(t) == reconnect_ids(GROUP * t)
        stD == [a \in Addrs |->
                  IF a \in seated
                  THEN Game(Colors[((pos(a) - 1) % GROUP) + 1], gid(table(a)))
                  ELSE stC[a]]
        txD == [a \in Addrs |->
                  IF a \in seated /\ rx_alive(a)
                  THEN Append(txB[a], init_pdu_of(player_name,
                                  ids(table(a))[Colors[((pos(a) - 1) % GROUP) + 1]],
                                  red(table(a)), blue(table(a)), yellow(table(a)),
                                  green(table(a))))
                  ELSE txB[a]]
        RECURSIVE inserted(_)
        inserted(t) == IF t = 0 THEN reconnect
                       ELSE insert_reconnect(inserted(t - 1), ids(t - 1), gid(t - 1))
    IN  /\ GROUP * n <= Len(rng)
        /\ state' = stD
        /\ tx' = txD
        /\ hb_wait' = hb_waitA
        /\ idle' = idle \cup kicked
        /\ player_name' = [a \in Addrs |-> IF a \in kicked THEN None ELSE player_name[a]]
        /\ mm_queue' = mm_queue \cup requeued
        /\ games' = games \o [t \in 1..n |->
                        NewGame(gid(t - 1), red(t - 1), blue(t - 1), yellow(t - 1), green(t - 1),
                                ids(t - 1))]
        /\ drivers' = drivers \o [t \in 1..n |-> NewDriver]
        /\ game_id' = game_id + n
        /\ reconnect' = inserted(n)
        /\ rng' = SubSeq(rng, GROUP * n + 1, Len(rng))
        /\ UNCHANGED <<conn, peers, hb_ready, client_info, task>>

\* ------------------------------------------------------------ turn order
\* Game::next_moved_player_inner: the first colour of check_seq that is not Lost
RECURSIVE next_moved_player_inner(_, _)
next_moved_player_inner(gm, check_seq) ==
    IF check_seq = << >>
    THEN None
    ELSE IF gm.state[Head(check_seq)] \in {"NoState", "Check", "Checkmate", "Stalemate"}
         THEN Some(Head(check_seq))
         ELSE next_moved_player_inner(gm, Tail(check_seq))

\* a faulty check_seq_after: the successors are taken against the turn order
check_seq_after_backwards(c) ==
    CASE c = "Red" -> <<"Green", "Yellow", "Blue">>
      [] c = "Blue" -> <<"Red", "Green", "Yellow">>
      [] c = "Yellow" -> <<"Blue", "Red", "Green">>
      [] c = "Green" -> <<"Yellow", "Blue", "Red">>

\* the three successors of a colour, as next_moved_player_mut spells them out
check_seq_after(c) ==
    CASE c = "Red" -> <<"Blue", "Yellow", "Green">>
      [] c = "Blue" -> <<"Yellow", "Green", "Red">>
      [] c = "Yellow" -> <<"Green", "Red", "Blue">>
      [] c = "Green" -> <<"Red", "Blue", "Yellow">>

\* a faulty next_moved_player_mut: at the start of the game it takes the seat
\* after Red, as it does once Red has moved
next_moved_player_mut_after_red(gm) ==
    LET no_lost_state_players_count == Cardinality({c \in Color : gm.state[c] # "Lost"})
    IN  IF no_lost_state_players_count > 1
        THEN next_moved_player_inner(gm, check_seq_after(
                 IF is_some(gm.who_move) THEN unwrap(gm.who_move).color ELSE "Red"))
        ELSE None

\* a faulty next_moved_player_mut: with a current mover it scans the
\* successors as long as anyone at all is not Lost
next_moved_player_mut_to_the_last(gm) ==
    LET no_lost_state_players_count == Cardinality({c \in Color : gm.state[c] # "Lost"})
    IN  IF is_some(gm.who_move)
        THEN IF no_lost_state_players_count > 0
             THEN next_moved_player_inner(gm, check_seq_after(unwrap(gm.who_move).color))
             ELSE None
        ELSE IF no_lost_state_players_count = 4
             THEN Some("Red")
             ELSE None

\* Game::next_moved_player_mut (the colour of the player it returns)
next_moved_player_mut(gm) ==
    LET no_lost_state_players_count == Cardinality({c \in Color : gm.state[c] # "Lost"})
    IN  IF is_some(gm.who_move)
        THEN IF no_lost_state_players_count > 1
             THEN next_moved_player_inner(gm, check_seq_after(unwrap(gm.who_move).color))
             ELSE None
        ELSE IF no_lost_state_players_count = 4
             THEN Some("Red")
             ELSE None

\* ------------------------------------------------------------ broadcast
\* the seats Game::broadcast reaches: it returns at the first failed send
RECURSIVE delivered_to(_, _)
delivered_to(gm, seq) ==
    IF seq = << >>
    THEN {}
    ELSE IF rx_alive(gm.peer[Head(seq)])
         THEN {gm.peer[Head(seq)]} \cup delivered_to(gm, Tail(seq))
         ELSE {}

\* Game::broadcast: the queues after it, and whether it returned Ok
broadcast(gm, message) ==
    [tx |-> [a \in Addrs |-> IF a \in delivered_to(gm, players) THEN <<message>> ELSE << >>],
     ok |-> \A i \in DOMAIN players : rx_alive(gm.peer[players[i]])]

\* From<vault::PlayerState> for proto::PlayerState
from_player_state(vault_state) ==
    CASE vault_state = "NoState" -> [no_state |-> << >>]
      [] vault_state = "Check" -> [check |-> << >>]
      [] vault_state = "Checkmate" -> [checkmate |-> << >>]
      [] vault_state = "Stalemate" -> [stalemate |-> << >>]
      [] vault_state = "Lost" -> [lost |-> [remaining_pieces |-> "clear"]]

NoCall == [no_call |-> << >>]
Call(player, timer, timer_2) == [call |-> [player |-> player, timer |-> timer, timer_2 |-> timer_2]]
\* a faulty is_no_call: NoCall is not recognised
is_no_call_never(move_call) == FALSE
is_no_call(move_call) == move_call = NoCall

Update(move_call, move_previous, players_states) ==
    [pdu |-> "game_session.update",
     move_call |-> move_call,
     move_previous |-> move_previous,
     players_states |-> players_states]

\* ------------------------------------------------------------ turn driver
\* move_call_dispatch, first block: after GS_INIT_PAUSE broadcast the first update
first_update(g) ==
    LET d == drivers[g + 1]
        gm == games[g + 1]
        first_moved_player == unwrap(next_moved_player_mut(gm))
        call == Update(Call(first_moved_player, PLAYER_TIMER, PLAYER_TIME_2), "NoMove",
                       [red |-> [no_state |-> << >>], blue |-> [no_state |-> << >>],
                        yellow |-> [no_state |-> << >>], green |-> [no_state |-> << >>]])
        gm1 == [gm EXCEPT !.who_move = Some(WhoMove(first_moved_player))]
    IN  /\ d.pc = "sleep"
        /\ d.slept >= GS_INIT_PAUSE
        /\ games' = [games EXCEPT ![g + 1] = gm1]
        /\ drivers' = [drivers EXCEPT ![g + 1] =
              [d EXCEPT !.pc = "select",
                        !.player_time_remaining = gm.time_remaining[first_moved_player]]]
        /\ tx' = broadcast(gm1, call).tx
        /\ UNCHANGED <<conn, peers, buckets, peer_fields, game_id, reconnect, rng, task>>

\* future::select resolves Either::Left: the move timer fired
select_timeout(g) ==
    /\ drivers[g + 1].pc = "select"
    /\ unwrap(games[g + 1].who_move).since >= move_timeout(g)
    /\ drivers' = [drivers EXCEPT ![g + 1].pc = "timeout"]
    /\ tx' = NoTx
    /\ UNCHANGED <<conn, peers, buckets, peer_fields, games, game_id, reconnect, rng, task>>

\* future::select resolves Either::Right: move_received.next() took an item
select_received(g) ==
    /\ drivers[g + 1].pc = "select"
    /\ unwrap(games[g + 1].who_move).since < move_timeout(g)
    /\ games[g + 1].signal > 0
    /\ games' = [games EXCEPT ![g + 1].signal = @ - 1]
    /\ drivers' = [drivers EXCEPT ![g + 1].pc = "received"]
    /\ tx' = NoTx
    /\ UNCHANGED <<conn, peers, buckets, peer_fields, game_id, reconnect, rng, task>>

\* the scheduling loop: while let Some(player) = next_moved_player_mut()
RECURSIVE find_next(_)
find_next(gm) ==
    LET player == next_moved_player_mut(gm)
    IN  IF ~is_some(player)
        THEN [gm |-> gm, move_call |-> NoCall, player_time_remaining |-> None]
        ELSE IF gm.state[unwrap(player)] \in {"Checkmate", "Stalemate", "Lost"}
             THEN find_next([gm EXCEPT !.state[unwrap(player)] = "Lost"])
             ELSE [gm |-> [gm EXCEPT !.who_move = Some(WhoMove(unwrap(player)))],
                   move_call |-> Call(unwrap(player), gm.time_remaining[unwrap(player)],
                                      PLAYER_TIME_2),
                   player_time_remaining |-> Some(gm.time_remaining[unwrap(player)])]

\* Game::apply_move: no variant changes the game
apply_move(gm, mv) == gm

\* the timeout branch when no move is recorded: the current mover loses on time
lose_on_time(gm) ==
    LET c == unwrap(gm.who_move).color
    IN  [gm EXCEPT !.state[c] = "Lost", !.time_remaining[c] = 0]

\* the task ends (return, error or panic): its UnboundedReceiver is dropped
drop_receiver(gm) == [gm EXCEPT !.receiver = FALSE, !.signal = 0]

\* move_call_dispatch, the locked block of one loop iteration
turn(g) ==
    LET d == drivers[g + 1]
        gm == games[g + 1]
        complete == unwrap(gm.who_move).complete
    IN  /\ d.pc \in {"timeout", "received"}
        /\ IF d.pc = "received" /\ ~is_some(complete)
           THEN \* complete.as_ref().unwrap() panics
                /\ games' = [games EXCEPT ![g + 1] = drop_receiver(gm)]
                /\ drivers' = [drivers EXCEPT ![g + 1].pc = "panicked"]
                /\ tx' = NoTx
           ELSE IF d.pc = "timeout" /\ is_some(complete) /\ gm.signal = 0
           THEN \* move_received.next().await never returns
                /\ drivers' = [drivers EXCEPT ![g + 1].pc = "blocked"]
                /\ tx' = NoTx
                /\ UNCHANGED games
           ELSE LET drained == IF d.pc = "timeout" /\ is_some(complete)
                               THEN [gm EXCEPT !.signal = @ - 1]
                               ELSE gm
                    resolved == IF is_some(complete)
                                THEN apply_move(drained, unwrap(complete).mv)
                                ELSE lose_on_time(drained)
                    move_previous == IF is_some(complete) THEN unwrap(complete).mv
                                     ELSE "NoMove"
                    next == find_next(resolved)
                    players_states ==
                        [red |-> from_player_state(next.gm.state["Red"]),
                         blue |-> from_player_state(next.gm.state["Blue"]),
                         yellow |-> from_player_state(next.gm.state["Yellow"]),
                         green |-> from_player_state(next.gm.state["Green"])]
                    update == Update(next.move_call, move_previous, players_states)
                    sent == broadcast(next.gm, update)
                    ptr == IF is_some(next.player_time_remaining)
                           THEN unwrap(next.player_time_remaining)
                           ELSE d.player_time_remaining
                IN  /\ tx' = sent.tx
                    /\ IF ~sent.ok
                       THEN \* game_lock.broadcast(update).await? returns the error
                            /\ games' = [games EXCEPT ![g + 1] = drop_receiver(next.gm)]
                            /\ drivers' = [drivers EXCEPT ![g + 1] =
                                  [d EXCEPT !.pc = "failed", !.player_time_remaining = ptr]]
                       ELSE IF is_no_call(next.move_call)
                       THEN /\ games' = [games EXCEPT ![g + 1] =
                                  drop_receiver([next.gm EXCEPT !.who_move = None])]
                            /\ drivers' = [drivers EXCEPT ![g + 1] =
                                  [d EXCEPT !.pc = "done", !.player_time_remaining = ptr]]
                       ELSE /\ games' = [games EXCEPT ![g + 1] = next.gm]
                            /\ drivers' = [drivers EXCEPT ![g + 1] =
                                  [d EXCEPT !.pc = "select", !.player_time_remaining = ptr]]
        /\ UNCHANGED <<conn, peers, buckets, peer_fields, game_id, reconnect, rng, task>>

\* ------------------------------------------------------------ locks
\* the RwLock around the Vault, the Mutex of each of its maps, of each Peer
\* and of each Game
vault_lock == <<"vault", 0>>
peers_lock == <<"peers", 0>>
idle_lock == <<"idle", 0>>
mm_queue_lock == <<"mm_queue", 0>>
hb_wait_lock == <<"hb_wait", 0>>
hb_ready_lock == <<"hb_ready", 0>>
games_lock == <<"games", 0>>
reconnect_lock == <<"reconnect", 0>>
peer_lock(a) == <<"peer", a>>
game_lock(g) == <<"game", g>>

\* the steps of an operation that concern locks: taking one (RwLock::read,
\* RwLock::write, Mutex::lock) and dropping a guard before the operation ends
acquire(l, mode) == [do |-> "lock", l |-> l, mode |-> mode]
release(l) == [do |-> "unlock", l |-> l, mode |-> "-"]
vault_read == acquire(vault_lock, "read")
vault_write == acquire(vault_lock, "write")
lock(l) == acquire(l, "lock")

\* the addresses of S in ascending order
RECURSIVE in_order(_)
in_order(S) ==
    IF S = {}
    THEN << >>
    ELSE LET a == CHOOSE x \in S : \A y \in S : x <= y
         IN  <<a>> \o in_order(S \ {a})

\* send_msg_to!: the guards are temporaries of one statement
locks_send_msg_to(a) ==
    <<vault_read, lock(peers_lock)>> \o
    (IF a \in peers THEN <<lock(peer_lock(a))>> ELSE << >>)

\* Vault::try_insert_peer under vault.read()
locks_try_insert_peer(a) == <<vault_read, lock(peers_lock)>>

\* Vault::remove_peer under vault.read()
locks_remove_peer(a) ==
    <<vault_read, lock(peers_lock)>> \o
    (IF a \in peers THEN <<lock(peer_lock(a))>> ELSE << >>)

\* a faulty process_hs_connect: the reply goes through send_msg_to! while the
\* write lock is held
locks_process_hs_connect_send_msg_to(a, proto_ver) ==
    <<vault_write>> \o locks_send_msg_to(a)

locks_process_hs_connect(a, proto_ver) ==
    IF proto_ver = PROTO_VER
    THEN <<vault_write, lock(peers_lock)>> \o
         (IF a \in peers
          THEN <<lock(peer_lock(a))>> \o
               (IF is_unknown(state[a]) THEN <<lock(idle_lock)>> ELSE << >>)
          ELSE << >>)
    ELSE locks_send_msg_to(a)

locks_process_mm_player_reg(a) ==
    <<vault_write, lock(peers_lock)>> \o
    (IF a \in peers
     THEN <<lock(peer_lock(a))>> \o
          (IF state[a].k = "Idle" THEN <<lock(mm_queue_lock)>> ELSE << >>)
     ELSE << >>)

locks_process_mm_player_leave(a) ==
    <<vault_read, lock(peers_lock)>> \o
    (IF a \in peers THEN <<lock(peer_lock(a))>> ELSE << >>)

locks_process_mm_heartbeat_check(a) ==
    <<vault_write, lock(peers_lock)>> \o
    (IF a \in peers
     THEN <<lock(peer_lock(a))>> \o
          (IF is_hb_wait(state[a]) THEN <<lock(hb_ready_lock)>> ELSE << >>)
     ELSE << >>)

locks_process_move_make(a, mv) ==
    IF mv \in {"Basic", "Capture", "Promotion", "Castling"}
    THEN <<vault_write, lock(peers_lock)>> \o
         (IF a \in peers
          THEN <<lock(peer_lock(a))>> \o
               (IF is_game(state[a]) THEN <<lock(game_lock(state[a].game))>> ELSE << >>)
          ELSE << >>)
    ELSE << >>

\* Game::broadcast: each seat's peer is locked for the send alone; a failed
\* send returns with the guard
RECURSIVE locks_broadcast(_, _)
locks_broadcast(gm, seq) ==
    IF seq = << >>
    THEN << >>
    ELSE LET a == gm.peer[Head(seq)]
         IN  IF rx_alive(a)
             THEN <<lock(peer_lock(a)), release(peer_lock(a))>> \o locks_broadcast(gm, Tail(seq))
             ELSE <<lock(peer_lock(a))>>

\* move_call_dispatch: the locked block of the first Update and of each loop
\* iteration
locks_move_call_dispatch(g) ==
    <<vault_write, lock(games_lock)>> \o
    (IF g \in {games[i].id : i \in DOMAIN games}
     THEN <<lock(game_lock(g))>> \o locks_broadcast(games[g + 1], players)
     ELSE << >>)

\* dropping the guards that tmp_peers holds
drop_peers(kept) == [i \in 1..Len(kept) |-> release(peer_lock(kept[i]))]

\* a pass's loop over a bucket: each peer is locked; the guard of a peer that
\* is collected stays in tmp_peers until GROUP are gathered or the pass ends,
\* any other guard is dropped at once
RECURSIVE locks_collect(_, _, _)
locks_collect(seq, collected, kept) ==
    IF seq = << >>
    THEN drop_peers(kept)
    ELSE LET a == Head(seq)
         IN  IF a \notin collected
             THEN <<lock(peer_lock(a)), release(peer_lock(a))>> \o
                  locks_collect(Tail(seq), collected, kept)
             ELSE IF Len(kept) + 1 = GROUP
             THEN <<lock(peer_lock(a))>> \o drop_peers(Append(kept, a)) \o
                  locks_collect(Tail(seq), collected, << >>)
             ELSE <<lock(peer_lock(a))>> \o locks_collect(Tail(seq), collected, Append(kept, a))

\* one tick of matchmaking_dispatcher: passes A to D and the debug line, under
\* vault.write()
locks_matchmaking_dispatcher ==
    <<vault_write>> \o
    <<lock(mm_queue_lock), lock(hb_wait_lock)>> \o
    locks_collect(in_order(mm_queue), collect_mm_queue, << >>) \o
    <<release(hb_wait_lock), release(mm_queue_lock)>> \o
    <<lock(hb_wait_lock), lock(idle_lock)>> \o
    locks_collect(in_order(hb_wait), {}, << >>) \o
    <<release(idle_lock), release(hb_wait_lock)>> \o
    <<lock(hb_ready_lock), lock(mm_queue_lock)>> \o
    locks_collect(in_order(hb_ready), {}, << >>) \o
    <<release(mm_queue_lock), release(hb_ready_lock)>> \o
    <<lock(hb_ready_lock), lock(games_lock), lock(reconnect_lock)>> \o
    locks_collect(in_order(hb_ready), {a \in hb_ready : is_hb_ready(state[a])}, << >>) \o
    <<release(reconnect_lock), release(games_lock), release(hb_ready_lock)>> \o
    <<lock(peers_lock), lock(idle_lock), lock(mm_queue_lock), lock(hb_wait_lock),
      lock(hb_ready_lock), lock(reconnect_lock)>>

\* the connections whose handler tasks take part in the lock steps: a seated
\* client's and the fifth client's
LockAddrs == {1, GROUP + 1}
\* the tasks: one per connection, the dispatcher, the turn driver of game 0
Tasks == {<<"conn", a>> : a \in LockAddrs} \cup {<<"dispatcher", 0>>, <<"driver", 0>>}
\* what a connection's task runs: the insert, a handler per message, the removal
ConnOps == {"try_insert_peer", "send_msg_to", "process_hs_connect", "process_mm_player_reg",
            "process_mm_player_leave", "process_mm_heartbeat_check", "process_move_make",
            "remove_peer"}
ops_of(t) ==
    CASE t[1] = "conn" -> ConnOps
      [] t[1] = "dispatcher" -> {"matchmaking_dispatcher"}
      [] OTHER -> {"move_call_dispatch"}

\* the lock steps of operation op run by task t
locks_of(t, op) ==
    CASE op = "try_insert_peer" -> locks_try_insert_peer(t[2])
      [] op = "send_msg_to" -> locks_send_msg_to(t[2])
      [] op = "process_hs_connect" -> locks_process_hs_connect(t[2], PROTO_VER)
      [] op = "process_mm_player_reg" -> locks_process_mm_player_reg(t[2])
      [] op = "process_mm_player_leave" -> locks_process_mm_player_leave(t[2])
      [] op = "process_mm_heartbeat_check" -> locks_process_mm_heartbeat_check(t[2])
      [] op = "process_move_make" -> locks_process_move_make(t[2], "Basic")
      [] op = "remove_peer" -> locks_remove_peer(t[2])
      [] op = "matchmaking_dispatcher" -> locks_matchmaking_dispatcher
      [] op = "move_call_dispatch" -> locks_move_call_dispatch(t[2])
      [] OTHER -> << >>

\* a task between two operations: it holds nothing; ops counts the operations
\* it has begun
NoOp == [op |-> "-", todo |-> << >>, held |-> {}, ops |-> 0]
NoTask == [t \in Tasks |-> NoOp]

\* the lock l can be taken in this mode: a Mutex and the write half when nobody
\* holds it, the read half when no writer does
free_for(l, mode) ==
    \A u \in Tasks : \A h \in task[u].held :
       h.l = l => (mode = "read" /\ h.mode = "read")

\* everything but the tasks
data == <<conn, peers, idle, mm_queue, hb_wait, hb_ready, state, player_name, client_info,
          tx, games, game_id, drivers, reconnect, rng>>

\* task t starts operation op
begin(t, op) ==
    /\ task[t].op = "-"
    /\ task[t].ops < MaxOps
    /\ op \in ops_of(t)
    /\ task' = [task EXCEPT ![t] = [op |-> op, todo |-> locks_of(t, op), held |-> {},
                                    ops |-> @.ops + 1]]
    /\ UNCHANGED data

\* task t takes the next lock of its operation, or drops a guard
step(t) ==
    LET s == Head(task[t].todo)
    IN  /\ task[t].todo # << >>
        /\ IF s.do = "lock"
           THEN /\ free_for(s.l, s.mode)
                /\ task' = [task EXCEPT ![t].todo = Tail(@),
                                        ![t].held = @ \cup {[l |-> s.l, mode |-> s.mode]}]
           ELSE task' = [task EXCEPT ![t].todo = Tail(@),
                                     ![t].held = {h \in @ : h.l # s.l}]
        /\ UNCHANGED data

\* the operation of task t returns: every guard it still holds is dropped
finish(t) ==
    /\ task[t].op # "-"
    /\ task[t].todo = << >>
    /\ task' = [task EXCEPT ![t].op = "-", ![t].held = {}]
    /\ UNCHANGED data

\* ------------------------------------------------------------ specifications
\* the server as constructed: no connection, an empty Vault, no game
Init ==
    /\ conn = [a \in Addrs |-> "none"]
    /\ peers = {}
    /\ idle = {}
    /\ mm_queue = {}
    /\ hb_wait = {}
    /\ hb_ready = {}
    /\ state = [a \in Addrs |-> Unknown]
    /\ player_name = [a \in Addrs |-> None]
    /\ client_info = [a \in Addrs |-> None]
    /\ tx = NoTx
    /\ games = << >>
    /\ game_id = 0
    /\ reconnect = << >>
    /\ rng = fresh_strings
    /\ task = NoTask
    /\ drivers = << >>

\* Every client sends the messages its state calls for; the clients at Strays
\* also send any message in any state.  A message out of place changes no state
\* (it is ignored or answered with an error), so this keeps every state of the
\* registry reachable.
Strays == {1}

\* connections, message handlers and the matchmaking dispatcher
Next ==
    \/ \E a \in Seats : handle_connection(a)
    \/ \E a \in Addrs : Disconnect(a)
    \/ \E a \in Strays : process_hs_get_info(a)
    \/ \E a \in Addrs, v \in ProtoVers :
          /\ a \in Strays \/ (is_unknown(state[a]) /\ v = PROTO_VER)
          /\ process_hs_connect(a, "c", "1", v)
    \/ \E a \in Addrs :
          /\ a \in Strays \/ state[a].k = "Idle"
          /\ process_mm_player_reg(a, NameOf(a))
    \/ \E a \in Addrs :
          /\ a \in Strays \/ state[a].k \in {"MMQueue", "HeartbeatWait", "HeartbeatReady"}
          /\ process_mm_player_leave(a)
    \/ \E a \in Addrs :
          /\ a \in Strays \/ is_hb_wait(state[a])
          /\ process_mm_heartbeat_check(a)
    \/ \E a \in Strays, mv \in MoveKinds : process_move_make(a, mv)
    \/ matchmaking_dispatcher
    \/ Tick(Quantum)

Spec == Init /\ [][Next]_vars

\* what process_hs_connect stored for a client that completed the handshake
ClientInfo == Some([name |-> "c", version |-> "1", protocol |-> PROTO_VER])

\* a table as the dispatcher leaves it: addresses 1 to 4 seated in that order,
\* and a fifth client that has connected and sends nothing
InitGame ==
    /\ conn = [a \in Addrs |-> "open"]
    /\ peers = Addrs
    /\ idle = Seats
    /\ mm_queue = Seats
    /\ hb_wait = Seats
    /\ hb_ready = Seats
    /\ state = [a \in Addrs |-> IF a \in Seats THEN Game(Colors[a], 0) ELSE Unknown]
    /\ player_name = [a \in Addrs |-> IF a \in Seats THEN Some(NameOf(a)) ELSE None]
    /\ client_info = [a \in Addrs |-> IF a \in Seats THEN ClientInfo ELSE None]
    /\ tx = [a \in Addrs |->
               IF a \in Seats
               THEN <<init_pdu_of(player_name, fresh_ids[Colors[a]], 1, 2, 3, 4)>>
               ELSE << >>]
    /\ games = <<NewGame(0, 1, 2, 3, 4, fresh_ids)>>
    /\ game_id = 1
    /\ reconnect = insert_reconnect(<< >>, fresh_ids, 0)
    /\ rng = << >>
    /\ task = NoTask
    /\ drivers = <<NewDriver>>

\* one game: the seated peers' moves and connections, and the turn driver
NextGame ==
    \/ \E a \in Seats, mv \in MoveKinds : process_move_make(a, mv)
    \/ \E a \in Seats : Disconnect(a)
    \/ \E g \in 0..(Len(games) - 1) : first_update(g)
    \/ \E g \in 0..(Len(games) - 1) : select_timeout(g)
    \/ \E g \in 0..(Len(games) - 1) : select_received(g)
    \/ \E g \in 0..(Len(games) - 1) : turn(g)
    \/ Tick(Quantum)

SpecGame == InitGame /\ [][NextGame]_vars

\* four clients that have completed the handshake, the last one just now, and
\* a fifth that has connected and sends nothing
InitQueue ==
    /\ conn = [a \in Addrs |-> "open"]
    /\ peers = Addrs
    /\ idle = Seats
    /\ mm_queue = {}
    /\ hb_wait = {}
    /\ hb_ready = {}
    /\ state = [a \in Addrs |-> IF a \in Seats THEN Idle ELSE Unknown]
    /\ player_name = [a \in Addrs |-> None]
    /\ client_info = [a \in Addrs |-> IF a \in Seats THEN ClientInfo ELSE None]
    /\ tx = [a \in Addrs |-> IF a = GROUP THEN <<ConnectOk>> ELSE << >>]
    /\ games = << >>
    /\ game_id = 0
    /\ reconnect = << >>
    /\ rng = fresh_strings
    /\ task = NoTask
    /\ drivers = << >>

\* the matchmaking phase second by second: registration, leave, heartbeat
\* replies, disconnects of the four and the dispatcher
NextQueue ==
    \/ \E a \in Seats : state[a].k = "Idle" /\ process_mm_player_reg(a, NameOf(a))
    \/ \E a \in Seats :
          /\ state[a].k \in {"MMQueue", "HeartbeatWait", "HeartbeatReady"}
          /\ process_mm_player_leave(a)
    \/ \E a \in Seats : is_hb_wait(state[a]) /\ process_mm_heartbeat_check(a)
    \/ \E a \in Seats : Disconnect(a)
    \/ matchmaking_dispatcher
    \/ Tick(1)

SpecQueue == InitQueue /\ [][NextQueue]_vars

\* five clients that have completed the handshake, one more than a table seats
InitArrival ==
    /\ conn = [a \in Addrs |-> "open"]
    /\ peers = Addrs
    /\ idle = Addrs
    /\ mm_queue = {}
    /\ hb_wait = {}
    /\ hb_ready = {}
    /\ state = [a \in Addrs |-> Idle]
    /\ player_name = [a \in Addrs |-> None]
    /\ client_info = [a \in Addrs |-> ClientInfo]
    /\ tx = [a \in Addrs |-> IF a = GROUP + 1 THEN <<ConnectOk>> ELSE << >>]
    /\ games = << >>
    /\ game_id = 0
    /\ reconnect = << >>
    /\ rng = fresh_strings
    /\ task = NoTask
    /\ drivers = << >>

\* the five register once each, in the order of their addresses, and none
\* replies to a heartbeat; a connection may end and the dispatcher runs at any
\* moment in between
NextArrival ==
    \/ \E a \in Addrs :
          /\ state[a].k = "Idle"
          /\ a \notin mm_queue
          /\ \A b \in Addrs : b < a => b \in mm_queue
          /\ process_mm_player_reg(a, NameOf(a))
    \/ \E a \in Addrs : Disconnect(a)
    \/ matchmaking_dispatcher
    \/ Tick(1)

SpecArrival == InitArrival /\ [][NextArrival]_vars

\* connections, second connections from an address being served, handshakes
\* and registrations, from the server as constructed
NextDuplicate ==
    \/ \E a \in Seats : handle_connection(a)
    \/ \E a \in Seats : handle_connection_duplicate(a)
    \/ \E a \in Seats : is_unknown(state[a]) /\ process_hs_connect(a, "c", "1", PROTO_VER)
    \/ \E a \in Seats : state[a].k = "Idle" /\ process_mm_player_reg(a, NameOf(a))
    \/ \E a \in Seats : Disconnect(a)

SpecDuplicate == Init /\ [][NextDuplicate]_vars

\* a table in the middle of a game: any mover, any condition of each of the
\* four players, and the driver woken either by the timer with no move
\* recorded or by the signal of a recorded move
InitTurnOrder ==
    \E st \in [Color -> PlayerState], c \in Color, woke \in {"timeout", "received"} :
       /\ conn = [a \in Addrs |-> "open"]
       /\ peers = Addrs
       /\ idle = Seats
       /\ mm_queue = Seats
       /\ hb_wait = Seats
       /\ hb_ready = Seats
       /\ state = [a \in Addrs |-> IF a \in Seats THEN Game(Colors[a], 0) ELSE Unknown]
       /\ player_name = [a \in Addrs |-> IF a \in Seats THEN Some(NameOf(a)) ELSE None]
       /\ client_info = [a \in Addrs |-> IF a \in Seats THEN ClientInfo ELSE None]
       /\ tx = NoTx
       /\ games = <<[NewGame(0, 1, 2, 3, 4, fresh_ids) EXCEPT
                       !.state = st,
                       !.who_move = Some(
                           [color |-> c,
                            since |-> IF woke = "timeout"
                                      THEN PLAYER_TIMER + PLAYER_TIME_2 ELSE 0,
                            complete |-> IF woke = "timeout"
                                         THEN None ELSE Some(Complete("Basic"))])]>>
       /\ game_id = 1
       /\ reconnect = insert_reconnect(<< >>, fresh_ids, 0)
       /\ rng = << >>
       /\ task = NoTask
       /\ drivers = <<[pc |-> woke, slept |-> GS_INIT_PAUSE,
                       player_time_remaining |-> PLAYER_TIMER]>>

\* the locked block of the driver's iteration, which schedules the next mover
NextTurnOrder == \E g \in 0..(Len(games) - 1) : turn(g)

SpecTurnOrder == InitTurnOrder /\ [][NextTurnOrder]_vars

\* the strings random_string() may return
Tokens == 1..MaxTokens

\* four clients that have registered, the last one just now, a fifth that has
\* connected and sends nothing, and a generator that may return any strings
InitTokens ==
    \E strings \in [1..GROUP -> Tokens] :
       /\ conn = [a \in Addrs |-> "open"]
       /\ peers = Addrs
       /\ idle = Seats
       /\ mm_queue = Seats
       /\ hb_wait = {}
       /\ hb_ready = {}
       /\ state = [a \in Addrs |-> IF a \in Seats THEN MMQueue ELSE Unknown]
       /\ player_name = [a \in Addrs |-> IF a \in Seats THEN Some(NameOf(a)) ELSE None]
       /\ client_info = [a \in Addrs |-> IF a \in Seats THEN ClientInfo ELSE None]
       /\ tx = [a \in Addrs |-> IF a = GROUP THEN <<PlayerRegisterOk>> ELSE << >>]
       /\ games = << >>
       /\ game_id = 0
       /\ drivers = << >>
       /\ reconnect = << >>
       /\ rng = strings
       /\ task = NoTask

\* the four reply to the heartbeat check and the dispatcher seats them
NextTokens ==
    \/ \E a \in Seats : is_hb_wait(state[a]) /\ process_mm_heartbeat_check(a)
    \/ matchmaking_dispatcher

SpecTokens == InitTokens /\ [][NextTokens]_vars

\* the lobby states of the fifth client
LobbyStates == {Unknown, Idle, MMQueue, HeartbeatWait(0), HeartbeatReady(0)}

\* a table seated from addresses 1..4, its driver running, and the fifth client
\* anywhere in the lobby; no task is in an operation
InitLocks ==
    \E s \in LobbyStates :
       /\ conn = [a \in Addrs |-> "open"]
       /\ peers = Addrs
       /\ idle = Seats \cup {a \in Addrs \ Seats : s.k # "Unknown"}
       /\ mm_queue = Seats \cup {a \in Addrs \ Seats : s.k \notin {"Unknown", "Idle"}}
       /\ hb_wait = Seats \cup {a \in Addrs \ Seats : s.k \in {"HeartbeatWait", "HeartbeatReady"}}
       /\ hb_ready = Seats \cup {a \in Addrs \ Seats : s.k = "HeartbeatReady"}
       /\ state = [a \in Addrs |-> IF a \in Seats THEN Game(Colors[a], 0) ELSE s]
       /\ player_name = [a \in Addrs |->
                           IF a \in Seats \/ s.k \notin {"Unknown", "Idle"}
                           THEN Some(NameOf(a)) ELSE None]
       /\ client_info = [a \in Addrs |->
                           IF a \in Seats \/ s.k # "Unknown" THEN ClientInfo ELSE None]
       /\ tx = NoTx
       /\ games = <<NewGame(0, 1, 2, 3, 4, fresh_ids)>>
       /\ game_id = 1
       /\ reconnect = insert_reconnect(<< >>, fresh_ids, 0)
       /\ rng = << >>
       /\ drivers = <<NewDriver>>
       /\ task = NoTask

\* the tasks' lock steps, interleaved
NextLocks ==
    \/ \E t \in Tasks, op \in ConnOps \cup {"matchmaking_dispatcher", "move_call_dispatch"} :
          begin(t, op)
    \/ \E t \in Tasks : step(t)
    \/ \E t \in Tasks : finish(t)

SpecLocks == InitLocks /\ [][NextLocks]_vars

\* the runtime polls every task that can run: while some task can take its
\* next lock, drop a guard or return, one of them does
SpecLocksFair ==
    /\ InitLocks
    /\ [][NextLocks]_vars
    /\ WF_vars(\E t \in Tasks : step(t) \/ finish(t))

\* ------------------------------------------------------------ the turn driver's contract
\* the games created so far
Games == 0..(Len(games) - 1)
\* the Update frames in the queue q
Updates(q) == {q[i] : i \in {j \in DOMAIN q : q[j].pdu = "game_session.update"}}
\* the clients seated at gm whose connection is open
connected_seats(gm) == {gm.peer[c] : c \in {x \in Color : rx_alive(gm.peer[x])}}
\* the Move variants process_move_make validates
Moves == MoveKinds \cap {"Basic", "Capture", "Promotion", "Castling"}
\* the conditions of the seats of gm as an Update reports them
states_of(gm) ==
    [red |-> from_player_state(gm.state["Red"]),
     blue |-> from_player_state(gm.state["Blue"]),
     yellow |-> from_player_state(gm.state["Yellow"]),
     green |-> from_player_state(gm.state["Green"])]
\* the seats of gm that are not Lost
non_lost(gm) == {c \in Color : gm.state[c] # "Lost"}
\* the k-th seat after c in turn order (Red, Blue, Yellow, Green, Red, ...)
seat_after(c, k) ==
    Colors[(((CHOOSE i \in 1..GROUP : Colors[i] = c) - 1 + k) % GROUP) + 1]
\* the first seat after c in turn order that is not Lost in gm
next_non_lost(gm, c) ==
    seat_after(c, CHOOSE k \in 1..(GROUP - 1) :
                     /\ gm.state[seat_after(c, k)] # "Lost"
                     /\ \A j \in 1..(k - 1) : gm.state[seat_after(c, j)] = "Lost")
\* the driver of game g is about to run one locked block that reaches its broadcast
reaches_broadcast(g) ==
    LET d == drivers[g + 1]
        complete == unwrap(games[g + 1].who_move).complete
    IN  \/ d.pc = "received" /\ is_some(complete)
        \/ d.pc = "timeout" /\ ~is_some(complete)
        \/ d.pc = "timeout" /\ is_some(complete) /\ games[g + 1].signal > 0

\* the first Update of a game
first_call ==
    Update(Call("Red", PLAYER_TIMER, PLAYER_TIME_2), "NoMove",
           [red |-> [no_state |-> << >>], blue |-> [no_state |-> << >>],
            yellow |-> [no_state |-> << >>], green |-> [no_state |-> << >>]])

C1_Step(a, mv) ==
    LET gm == games[state[a].game + 1]
        gm1 == games'[state[a].game + 1]
    IN  (is_game(state[a]) /\ process_move_make(a, mv)) =>
           IF is_some(gm.who_move) /\ unwrap(gm.who_move).color = state[a].color
           THEN /\ unwrap(gm1.who_move).complete = Some(Complete(mv))
                /\ gm1.signal = gm.signal + 1
                /\ tx'[a] = << >>
           ELSE tx'[a] = <<forbidden_move_pdu>>

\* C1: a move sent by a peer in state Game is recorded in whoMove.complete with
\* exactly one item pushed into the game's signal channel and no reply when
\* whoMove names the peer's colour, and is answered ForbiddenMove otherwise.
C1_MoveMake == [][\A a \in Seats, mv \in Moves : C1_Step(a, mv)]_vars

C2_Step(g) ==
    LET d == drivers[g + 1]
        gm == games[g + 1]
        gm1 == games'[g + 1]
        c == unwrap(gm.who_move).color
    IN  (d.pc = "timeout" /\ ~is_some(unwrap(gm.who_move).complete) /\ turn(g)) =>
           /\ gm1.state[c] = "Lost"
           /\ gm1.time_remaining[c] = 0
           /\ \A a \in connected_seats(gm) :
                 /\ Len(tx'[a]) = 1
                 /\ tx'[a][1].pdu = "game_session.update"
                 /\ tx'[a][1].move_previous = "NoMove"
                 /\ tx'[a][1].players_states = states_of(gm1)
                 /\ Cardinality(non_lost(gm1)) > 1 =>
                       tx'[a][1].move_call =
                           Call(next_non_lost(gm1, c),
                                gm1.time_remaining[next_non_lost(gm1, c)], PLAYER_TIME_2)

\* C2: when the move timer fires and no move is recorded, the mover becomes
\* Lost with timeRemaining 0 and the Update that follows reaches the connected
\* seats with move_previous NoMove, the mover reported lost and the call going
\* to the next seat in turn order that is not Lost.
C2_LoseOnTime == [][\A g \in Games : C2_Step(g)]_vars

C3_Step(g) ==
    LET gm == games[g + 1]
    IN  (reaches_broadcast(g) /\ connected_seats(gm) # Seats /\ turn(g)) =>
           /\ drivers'[g + 1].pc \in {"select", "done"}
           /\ \A a \in connected_seats(gm) : Updates(tx'[a]) # {}

\* C3: with a seated player's connection closed the driver keeps iterating:
\* its locked block ends in the next select or in the normal end of the game,
\* and every seat still connected receives the Update.
C3_DisconnectKeepsDriver == [][\A g \in Games : C3_Step(g)]_vars

C4_Step(g) ==
    LET d == drivers[g + 1]
        gm == games[g + 1]
        gm1 == games'[g + 1]
    IN  /\ (reaches_broadcast(g) /\ turn(g) /\ Cardinality(non_lost(gm1)) <= 1) =>
              /\ \A a \in connected_seats(gm) :
                    /\ Len(tx'[a]) = 1
                    /\ tx'[a][1].pdu = "game_session.update"
                    /\ tx'[a][1].move_call = NoCall
                    /\ tx'[a][1].players_states = states_of(gm1)
              /\ gm1.who_move = None
              /\ drivers'[g + 1].pc = "done"
        /\ d.pc = "done" => \A a \in Addrs : Updates(tx'[a]) = {}

\* C4: when no next mover is left the driver sends one final Update with
\* NoCall and the final conditions to the connected seats, sets whoMove to
\* None and ends; no Update follows it.
C4_FinalUpdate == [][\A g \in Games : C4_Step(g)]_vars

C5_Step(g) ==
    LET d == drivers[g + 1]
        gm == games[g + 1]
    IN  d.pc = "sleep" =>
           /\ gm.who_move = None
           /\ \A a \in Seats, mv \in Moves :
                 process_move_make(a, mv) => tx'[a] = <<forbidden_move_pdu>>
           /\ IF drivers'[g + 1].pc = "sleep"
              THEN /\ games'[g + 1].who_move = None
                   /\ \A a \in Addrs : Updates(tx'[a]) = {}
              ELSE /\ d.slept >= GS_INIT_PAUSE
                   /\ games'[g + 1].who_move =
                         Some([color |-> "Red", since |-> 0, complete |-> None])
                   /\ \A a \in Addrs : tx'[a] \in {<< >>, <<first_call>>}
                   /\ connected_seats(gm) = Seats => \A a \in Seats : tx'[a] = <<first_call>>

\* C5: while the driver sleeps out GS_INIT_PAUSE no Update is sent, whoMove is
\* None and every move is answered ForbiddenMove; the step that ends the pause
\* comes no earlier than GS_INIT_PAUSE, sends the Update calling Red with timer
\* PLAYER_TIMER, timer_2 PLAYER_TIME_2 and move_previous NoMove, and sets
\* whoMove to Red with no move recorded.
C5_FirstUpdate == [][\A g \in Games : C5_Step(g)]_vars

\* the pause is over: all four seats hold the first Update and Red is to move
C5_Witness ==
    /\ Len(games) = 1
    /\ \A a \in Seats : tx[a] = <<first_call>>
    /\ games[1].who_move = Some(WhoMove("Red"))

C6_Step(g) ==
    LET gm == games[g + 1]
        c == unwrap(gm.who_move).color
        elapsed == unwrap(gm.who_move).since
    IN  (reaches_broadcast(g) /\ is_some(unwrap(gm.who_move).complete) /\ turn(g)) =>
           games'[g + 1].time_remaining[c] =
               gm.time_remaining[c] - Max(0, elapsed - PLAYER_TIME_2)

\* C6: when the driver consumes a recorded move, the mover's timeRemaining
\* goes down by max(0, elapsed - PLAYER_TIME_2), elapsed being the time since
\* the mover was called.
C6_TimeDeducted == [][\A g \in Games : C6_Step(g)]_vars

\* ------------------------------------------------------------ the dispatcher's contract
\* the peers in state HeartbeatReady
ready_peers == {a \in Addrs : is_hb_ready(state[a])}
\* the step is a message of the client at a being handled
sends(a) ==
    \/ process_hs_get_info(a)
    \/ \E v \in ProtoVers : process_hs_connect(a, "c", "1", v)
    \/ process_mm_player_reg(a, NameOf(a))
    \/ process_mm_player_leave(a)
    \/ process_mm_heartbeat_check(a)
    \/ \E mv \in MoveKinds : process_move_make(a, mv)

C7_Step ==
    (/\ Cardinality(ready_peers) = GROUP
     /\ \A a \in ready_peers : state[a].since <= HB_READY_TIMEOUT
     /\ matchmaking_dispatcher) =>
        /\ Len(games') = Len(games) + 1
        /\ Len(drivers') = Len(drivers) + 1
        /\ games'[Len(games')].id = game_id
        /\ \A a \in ready_peers :
              /\ is_game(state'[a])
              /\ state'[a].game = game_id
              /\ games'[Len(games')].peer[state'[a].color] = a
              /\ Len(tx'[a]) = 1
              /\ tx'[a][1].pdu = "game_session.init"
              /\ tx'[a][1].countdown = GS_INIT_PAUSE

\* C7: a dispatcher tick that finds four peers in state HeartbeatReady, none
\* of them past HB_READY_TIMEOUT, creates and registers one game with its
\* driver, puts each of the four in state Game for it on a seat of its own, and
\* enqueues an Init frame to each.
C7_GameFormed == [][C7_Step]_vars

\* a game has just been formed: four peers are in state Game and hold Init
C7_Witness ==
    /\ Len(games) = 1
    /\ Cardinality({a \in Addrs : /\ is_game(state[a])
                                  /\ tx[a] # << >>
                                  /\ tx[a][1].pdu = "game_session.init"}) = GROUP

C8_Step ==
    ((\E a \in Addrs : is_hb_wait(state[a])) /\ matchmaking_dispatcher) =>
        \A a \in Addrs :
           is_hb_wait(state[a]) =>
              IF state[a].since > HB_WAIT_TIMEOUT
              THEN /\ tx'[a] = <<[pdu |-> "matchmaking_queue.player_kick",
                                  discritpion |-> "Heartbeat timeout"]>>
                   /\ state'[a] = Idle
                   /\ player_name'[a] = None
                   /\ a \in idle'
              ELSE /\ tx'[a] = << >>
                   /\ state'[a] = state[a]
                   /\ player_name'[a] = player_name[a]

C9_Step ==
    ((\E a \in Addrs : is_hb_ready(state[a]) /\ state[a].since > HB_READY_TIMEOUT)
        /\ matchmaking_dispatcher) =>
        \A a \in Addrs :
           (is_hb_ready(state[a]) /\ state[a].since > HB_READY_TIMEOUT) =>
              /\ state'[a] = MMQueue
              /\ a \in mm_queue'

\* C9: a dispatcher tick returns every peer in state HeartbeatReady for more
\* than HB_READY_TIMEOUT to state MMQueue and inserts it into the MMQueue
\* bucket; such a peer is not seated at that tick.
C9_ReadyRequeued == [][C9_Step]_vars

\* three peers are back in MMQueue while the fourth is Idle: the group of
\* four did not get ready
C9_Witness ==
    /\ games = << >>
    /\ hb_ready # {}
    /\ \E a \in hb_ready : state[a] = MMQueue /\ tx[a] = << >>
    /\ \E b \in Addrs : tx[b] = <<kick_pdu>>

C10_Step(a) ==
    (rx_alive(a) /\ is_unknown(state[a])) =>
        \/ tx'[a] = << >> /\ state'[a] = state[a]
        \/ sends(a)

\* C10: a connected peer in state Unknown is sent no frame, and stays in state
\* Unknown, by any step that is not the handling of a message of its own.
C10_SilentPeer == [][\A a \in Addrs : C10_Step(a)]_vars

\* a peer is connected and in state Unknown with nothing in its queue while
\* another peer has just been sent Init
C10_Witness ==
    \E a, b \in Addrs :
       /\ rx_alive(a)
       /\ is_unknown(state[a])
       /\ tx[a] = << >>
       /\ tx[b] # << >>
       /\ tx[b][1].pdu = "game_session.init"

\* ------------------------------------------------------------ the handlers' contract
\* the buckets the peer at a is in, in the order idle, mm_queue, hb_wait, hb_ready
buckets_of(a) == <<a \in idle, a \in mm_queue, a \in hb_wait, a \in hb_ready>>
\* the buckets the peer at a is in after the step
buckets_of_next(a) == <<a \in idle', a \in mm_queue', a \in hb_wait', a \in hb_ready'>>

C11_Step(a) ==
    (a \in peers /\ is_unknown(state[a]) /\ process_hs_connect(a, "c", "1", PROTO_VER)) =>
        /\ client_info'[a] = Some([name |-> "c", version |-> "1", protocol |-> PROTO_VER])
        /\ state'[a] = Idle
        /\ a \in idle'
        /\ tx'[a] = <<[pdu |-> "handshake.connect.ok",
                      name |-> SERV_NAME, version |-> SERV_VER]>>

\* C11: Connect.Client naming PROTO_VER, handled while the peer is in state
\* Unknown, sets client_info, makes the peer Idle, inserts it into the Idle
\* bucket and enqueues exactly one Connect.Ok with the server's name and version.
C11_Connect == [][\A a \in Addrs : C11_Step(a)]_vars

\* a peer has just completed the handshake
C11_Witness ==
    \E a \in Addrs :
       /\ tx[a] = <<ConnectOk>>
       /\ state[a] = Idle
       /\ is_some(client_info[a])
       /\ a \in idle

C12_Step(a, v) ==
    (a \in peers /\ is_unknown(state[a]) /\ v # PROTO_VER
        /\ process_hs_connect(a, "c", "1", v)) =>
        /\ tx'[a] = <<[pdu |-> "handshake.connect.error.unsupported_protocol_version"]>>
        /\ state'[a] = Unknown
        /\ client_info'[a] = None
        /\ buckets_of_next(a) = <<FALSE, FALSE, FALSE, FALSE>>

\* C12: Connect.Client naming another protocol version, handled in state
\* Unknown, is answered UnsupportedProtocolVersion; the peer stays Unknown,
\* its client_info stays unset and it is in no bucket.
C12_ConnectRefused == [][\A a \in Addrs, v \in ProtoVers : C12_Step(a, v)]_vars

\* a peer that never completed the handshake holds the refusal
C12_Witness ==
    \E a \in Addrs :
       /\ tx[a] = <<UnsupportedProtocolVersion>>
       /\ state[a] = Unknown
       /\ a \in peers
       /\ client_info[a] = None
       /\ buckets_of(a) = <<FALSE, FALSE, FALSE, FALSE>>

C13_Step(a, v) ==
    (a \in peers /\ ~is_unknown(state[a]) /\ process_hs_connect(a, "c", "1", v)) =>
        /\ tx'[a] = << >>
        /\ state'[a] = state[a]
        /\ client_info'[a] = client_info[a]
        /\ buckets_of_next(a) = buckets_of(a)

\* C13: Connect.Client handled in any state but Unknown is ignored, whatever
\* protocol version it names: no reply, and the peer's state, client_info and
\* buckets stay as they were.
C13_ConnectIgnored == [][\A a \in Addrs, v \in ProtoVers : C13_Step(a, v)]_vars

C14_Step(a) ==
    (a \in peers /\ state[a].k = "Idle" /\ process_mm_player_reg(a, NameOf(a))) =>
        /\ player_name'[a] = Some(NameOf(a))
        /\ state'[a] = MMQueue
        /\ a \in mm_queue'
        /\ tx'[a] = <<[pdu |-> "matchmaking_queue.player_register.ok"]>>

\* C14: PlayerRegister.Name(n) handled in state Idle sets player_name to n,
\* makes the peer MMQueue, inserts it into the MMQueue bucket and enqueues
\* exactly one PlayerRegister.Ok.
C14_Register == [][\A a \in Addrs : C14_Step(a)]_vars

\* a peer has just registered
C14_Witness ==
    \E a \in Addrs :
       /\ tx[a] = <<PlayerRegisterOk>>
       /\ state[a] = MMQueue
       /\ player_name[a] = Some(NameOf(a))
       /\ a \in mm_queue

C15_Step(a) ==
    (a \in peers /\ state[a].k # "Idle" /\ process_mm_player_reg(a, NameOf(a))) =>
        /\ tx'[a] =
              IF state[a].k \in {"MMQueue", "HeartbeatWait", "HeartbeatReady", "Game"}
              THEN <<[pdu |-> "matchmaking_queue.player_register.error.already_registered"]>>
              ELSE <<[pdu |-> "matchmaking_queue.player_register.error.handshake"]>>
        /\ state[a].k \in {"MMQueue", "HeartbeatWait", "HeartbeatReady", "Game", "Unknown"}
        /\ state'[a] = state[a]
        /\ player_name'[a] = player_name[a]
        /\ buckets_of_next(a) = buckets_of(a)

\* C15: PlayerRegister.Name handled in state MMQueue, HeartbeatWait,
\* HeartbeatReady or Game is answered AlreadyRegistered, and in state Unknown
\* it is answered with the Handshake error; the peer's state, name and buckets
\* stay as they were.
C15_RegisterRefused == [][\A a \in Addrs : C15_Step(a)]_vars

\* a seated peer holds the AlreadyRegistered reply
C15_Witness ==
    \E a \in Addrs :
       /\ is_game(state[a])
       /\ tx[a] = <<AlreadyRegistered>>

C16_Step(a) ==
    (a \in peers /\ process_mm_player_leave(a)) =>
        /\ tx'[a] = << >>
        /\ IF state[a].k \in {"MMQueue", "HeartbeatWait", "HeartbeatReady"}
           THEN state'[a] = Idle
           ELSE /\ state[a].k \in {"Unknown", "Idle", "Game"}
                /\ state'[a] = state[a]
                /\ player_name'[a] = player_name[a]
                /\ client_info'[a] = client_info[a]
                /\ buckets_of_next(a) = buckets_of(a)
                /\ games' = games

\* C16: PlayerLeave handled in state MMQueue, HeartbeatWait or HeartbeatReady
\* makes the peer Idle; handled in state Unknown, Idle or Game it changes
\* nothing; no reply is enqueued in any state.
C16_Leave == [][\A a \in Addrs : C16_Step(a)]_vars

\* a peer that had replied to the heartbeat has left the queue: it is Idle
\* with its name kept, which a kick would have cleared
C16_Witness ==
    \E a \in Addrs :
       /\ state[a] = Idle
       /\ a \in hb_ready
       /\ is_some(player_name[a])
       /\ tx[a] = << >>

C17_Step(a) ==
    (a \in peers /\ process_mm_heartbeat_check(a)) =>
        IF state[a].k = "HeartbeatWait"
        THEN /\ state'[a] = HeartbeatReady(0)
             /\ a \in hb_ready'
        ELSE /\ state'[a] = state[a]
             /\ player_name'[a] = player_name[a]
             /\ buckets_of_next(a) = buckets_of(a)
             /\ tx'[a] = << >>

\* C17: HeartbeatCheck handled in state HeartbeatWait makes the peer
\* HeartbeatReady as of now and inserts it into the HeartbeatReady bucket;
\* handled in any other state, a peer kicked for heartbeat timeout included,
\* it changes nothing.
C17_HeartbeatAck == [][\A a \in Addrs : C17_Step(a)]_vars

\* a peer has replied to the heartbeat and another one of its group, which
\* has not, has been kicked and is Idle
C17_Witness ==
    \E a, b \in Addrs :
       /\ state[a] = HeartbeatReady(0)
       /\ a \in hb_ready
       /\ state[b] = Idle
       /\ b \in hb_wait
       /\ player_name[b] = None

\* ------------------------------------------------------------ the seating's contract
\* the name registered by the peer seated at colour c of game gm
seat_name(gm, c) == unwrap(player_name[gm.peer[c]])
\* the Init frames in the queue q
Inits(q) == {q[i] : i \in {j \in DOMAIN q : q[j].pdu = "game_session.init"}}

C18_Step ==
    (Cardinality(ready_peers) = GROUP /\ matchmaking_dispatcher) =>
        \A g \in Len(games)..(Len(games') - 1), a \in Addrs : \A m \in Inits(tx'[a]) :
           /\ m.start_positions.red.player_name = seat_name(games'[g + 1], "Red")
           /\ m.start_positions.blue.player_name = seat_name(games'[g + 1], "Blue")
           /\ m.start_positions.yellow.player_name = seat_name(games'[g + 1], "Yellow")
           /\ m.start_positions.green.player_name = seat_name(games'[g + 1], "Green")

\* C18: in every Init frame of a newly formed game each seat's start position
\* carries the name registered by the peer seated at that colour.
C18_InitNames == [][C18_Step]_vars

C19_Step(a, mv) ==
    LET gm == games[state[a].game + 1]
    IN  (/\ is_game(state[a])
         /\ ~(is_some(gm.who_move) /\ unwrap(gm.who_move).color = state[a].color)
         /\ process_move_make(a, mv)) =>
            /\ tx'[a] = <<forbidden_move_pdu>>
            /\ games' = games
            /\ drivers' = drivers

\* C19: a move that is rejected with ForbiddenMove changes nothing of the
\* game: whoMove (colour, since, recorded move), the signal channel and every
\* player's condition and timeRemaining are as before the handler ran.
C19_RejectedMove == [][\A a \in Seats, mv \in Moves : C19_Step(a, mv)]_vars

\* a seat that is not the mover holds ForbiddenMove while the mover's own move
\* is recorded and its signal is still in the channel
C19_Witness ==
    \E a \in Seats :
       /\ tx[a] = <<forbidden_move_pdu>>
       /\ is_game(state[a])
       /\ is_some(games[1].who_move)
       /\ unwrap(games[1].who_move).color # state[a].color
       /\ is_some(unwrap(games[1].who_move).complete)
       /\ games[1].signal = 1

\* ------------------------------------------------------------ the queue's order
\* under SpecArrival the clients register in the order of their addresses:
\* b entered the queue before a
arrived_before(b, a) == b < a

C20_Step ==
    (hb_ready = {} /\ matchmaking_dispatcher) =>
        \A a, b \in Addrs :
           (/\ is_mm_queue(state[a]) /\ is_hb_wait(state'[a])
            /\ is_mm_queue(state[b]) /\ is_mm_queue(state'[b])) => ~arrived_before(b, a)

\* C20: players are matched in arrival order: when the dispatcher takes a
\* heartbeat group of four from the MMQueue bucket, no peer it leaves in state
\* MMQueue entered the queue before a member of the group.  (Stated for the
\* ticks before any peer has replied to a heartbeat, when every queued peer
\* has entered the queue once, by registering.)
C20_ArrivalOrder == [][C20_Step]_vars

\* ------------------------------------------------------------ the registry's contract
C21_Step(a) ==
    handle_connection_duplicate(a) =>
        /\ a \in peers'
        /\ state'[a] = state[a]
        /\ player_name'[a] = player_name[a]
        /\ client_info'[a] = client_info[a]

\* C21: a connection from an address that is already in the registry leaves
\* the peer registered for that address as it is: neither the refused insert
\* nor the end of the new connection removes the peer or resets its state.
C21_DuplicateAddress == [][\A a \in Addrs : C21_Step(a)]_vars

\* ------------------------------------------------------------ the move signal's contract
\* the driver of game g is between its first Update and its end
in_loop(g) == drivers[g + 1].pc \in {"select", "timeout", "received"}
\* the items of game g's channel not yet accounted for: those in the channel
\* and the one select has taken for a locked block that has not run yet
unconsumed(g) == games[g + 1].signal + (IF drivers[g + 1].pc = "received" THEN 1 ELSE 0)

\* C22: whenever the game lock is free and the driver is in its loop,
\* whoMove.complete is Some exactly when the move signal channel holds an
\* item the driver has not processed, and there is never more than one such
\* item.
C22_SignalPaired ==
    \A g \in Games :
       in_loop(g) =>
          /\ unconsumed(g) <= 1
          /\ is_some(unwrap(games[g + 1].who_move).complete) <=> unconsumed(g) = 1

C23_Step(g) ==
    (drivers[g + 1].pc = "received" /\ turn(g)) =>
        /\ is_some(unwrap(games[g + 1].who_move).complete)
        /\ drivers'[g + 1].pc # "panicked"

\* C23: every locked block the driver runs after waking on the move signal
\* finds whoMove.complete set, by a move of the current mover in the current
\* turn: a signal of an earlier turn is never taken for a move of this one.
C23_NoStaleSignal == [][\A g \in Games : C23_Step(g)]_vars

\* ------------------------------------------------------------ the turn order's contract
\* C24: with a current mover c and at least two players not Lost,
\* next_moved_player_mut returns the first of c's three successors in the
\* cycle Red, Blue, Yellow, Green whose condition is not Lost (Checkmate and
\* Stalemate count as movable), never c and never a Lost player.
C24_NextMover ==
    \A g \in Games :
       LET gm == games[g + 1]
           c == unwrap(gm.who_move).color
           next == next_moved_player_mut(gm)
       IN  (is_some(gm.who_move) /\ Cardinality(non_lost(gm)) >= 2) =>
              /\ next = Some(next_non_lost(gm, c))
              /\ unwrap(next) # c
              /\ gm.state[unwrap(next)] # "Lost"

\* the driver has called Yellow; Green is Lost and Red, in Stalemate, is next
C24_Witness ==
    /\ Len(games) = 1
    /\ drivers[1].pc = "select"
    /\ games[1].who_move = Some(WhoMove("Yellow"))
    /\ games[1].state["Green"] = "Lost"
    /\ games[1].state["Red"] = "Stalemate"
    /\ next_moved_player_mut(games[1]) = Some("Red")

\* C25: with a current mover, next_moved_player_mut returns None exactly when
\* at most one player is not Lost, whether or not that player is the mover.
C25_GameOver ==
    \A g \in Games :
       LET gm == games[g + 1]
       IN  is_some(gm.who_move) =>
              (next_moved_player_mut(gm) = None <=> Cardinality(non_lost(gm)) <= 1)

\* Red, the mover, is Lost and Yellow alone is left: no next mover
C25_Witness ==
    /\ Len(games) = 1
    /\ is_some(games[1].who_move)
    /\ unwrap(games[1].who_move).color = "Red"
    /\ non_lost(games[1]) = {"Yellow"}
    /\ next_moved_player_mut(games[1]) = None

\* C26: whenever the game lock is free, whoMove = Some(c) implies that player
\* c is not Lost: the driver leaves no Lost player recorded as the mover.
C26_MoverNotLost ==
    \A g \in Games :
       LET gm == games[g + 1]
       IN  is_some(gm.who_move) => gm.state[unwrap(gm.who_move).color] # "Lost"

C27_Step(g) ==
    LET gm == games[g + 1]
        gm1 == games'[g + 1]
    IN  (Cardinality(non_lost(gm)) >= 2 /\ turn(g)) =>
           /\ non_lost(gm1) # {}
           /\ IF Cardinality(non_lost(gm1)) <= 1
              THEN drivers'[g + 1].pc = "done"
              ELSE drivers'[g + 1].pc = "select"

\* C27: an iteration of the driver that starts with at least two players not
\* Lost, as the first one does and as every one left running by this rule
\* does, ends with at least one player not Lost, whatever moves, timeouts and
\* demotions from Checkmate or Stalemate it brings; the driver exits in that
\* iteration if at most one player is left not Lost and runs on otherwise.
C27_SomeoneLeft == [][\A g \in Games : C27_Step(g)]_vars

\* the mover has lost on time and the driver has ended with its final Update,
\* Green alone being left
C27_Witness ==
    /\ Len(games) = 1
    /\ drivers[1].pc = "done"
    /\ games[1].who_move = None
    /\ non_lost(games[1]) = {"Green"}
    /\ tx[1] # << >>
    /\ tx[1][1].move_call = NoCall
    /\ tx[1][1].move_previous = "NoMove"

\* ------------------------------------------------------------ the passes' contract
\* the peers whose own state is MMQueue
queued == {a \in Addrs : state[a].k = "MMQueue"}
\* the peers the step moves into state HeartbeatWait
promoted == {a \in Addrs : state[a].k # "HeartbeatWait" /\ state'[a].k = "HeartbeatWait"}

C28_Step ==
    (queued # {} /\ matchmaking_dispatcher) =>
        /\ promoted \subseteq queued
        /\ Cardinality(promoted) = GROUP * (Cardinality(queued) \div GROUP)
        /\ \A a \in promoted :
              /\ state'[a] = HeartbeatWait(0)
              /\ tx'[a] = <<[pdu |-> "matchmaking_queue.heartbeat_check"]>>
              /\ a \in hb_wait'
        /\ \A a \in Addrs \ promoted :
              /\ \A i \in DOMAIN tx'[a] : tx'[a][i].pdu # "matchmaking_queue.heartbeat_check"
              /\ a \in queued => (state'[a] = MMQueue /\ tx'[a] = << >>)

driver_running(g) == drivers[g + 1].pc \in {"sleep", "select", "timeout", "received", "blocked"}

\* C29: a peer is seated in at most one game whose driver is running, and
\* while a game's driver is running the peer of each of its four seats is in
\* state Game with that game and that seat's colour.
C29_Seated ==
    /\ \A a \in Addrs :
          Cardinality({g \in Games : /\ driver_running(g)
                                      /\ \E c \in Color : games[g + 1].peer[c] = a}) <= 1
    /\ \A g \in Games :
          driver_running(g) =>
             \A c \in Color : state[games[g + 1].peer[c]] = Game(c, g)

\* the bucket entries whose peer is no longer in the bucket's state
stale ==
    {a \in Addrs : \/ (a \in mm_queue /\ state[a].k # "MMQueue")
                    \/ (a \in hb_wait /\ state[a].k # "HeartbeatWait")
                    \/ (a \in hb_ready /\ state[a].k # "HeartbeatReady")}
\* the peers the step seats
seated_now == {a \in Addrs : state[a].k # "Game" /\ state'[a].k = "Game"}
\* the frames of kind pdu in the queue q
frames(q, pdu) == {i \in DOMAIN q : q[i].pdu = pdu}

C30_Step ==
    (stale # {} /\ matchmaking_dispatcher) =>
        /\ promoted \subseteq queued
        /\ Cardinality(promoted) % GROUP = 0
        /\ Cardinality(seated_now) % GROUP = 0
        /\ \A a \in Addrs :
              /\ frames(tx'[a], "matchmaking_queue.heartbeat_check") # {}
                    => state[a].k = "MMQueue"
              /\ frames(tx'[a], "matchmaking_queue.player_kick") # {}
                    => state[a].k = "HeartbeatWait"
              /\ frames(tx'[a], "game_session.init") # {} => state[a].k = "HeartbeatReady"
              /\ a \in seated_now => state[a].k = "HeartbeatReady"
              /\ state[a].k \in {"Unknown", "Idle", "Game"} =>
                    (state'[a] = state[a] /\ tx'[a] = << >>)

\* C30: a stale bucket entry causes no dispatcher action: HeartbeatCheck goes
\* only to peers whose own state is MMQueue, PlayerKick only to peers in
\* HeartbeatWait, seats only to peers in HeartbeatReady, groups are made of
\* four such peers, and a peer that left the queue, was kicked, was removed on
\* disconnect or is seated already keeps its state and is sent nothing.
C30_StaleEntries == [][C30_Step]_vars

\* a peer that left the queue while in HeartbeatWait or later is Idle, still in
\* the HeartbeatWait bucket, and was sent nothing by the tick that has just
\* kicked another peer
C30_Witness ==
    \E a, b \in Addrs :
       /\ state[a] = Idle
       /\ a \in hb_wait
       /\ is_some(player_name[a])
       /\ tx[a] = << >>
       /\ tx[b] = <<kick_pdu>>

\* the buckets the state s implies: its own for Idle, MMQueue, HeartbeatWait
\* and HeartbeatReady, none for Unknown and Game
implied_buckets(s) ==
    <<s.k = "Idle", s.k = "MMQueue", s.k = "HeartbeatWait", s.k = "HeartbeatReady">>

C31_Step ==
    matchmaking_dispatcher =>
        \A a \in peers' : buckets_of_next(a) = implied_buckets(state'[a])

\* C31: after each dispatcher tick, the buckets that contain a peer are exactly
\* the one its state implies, and none when its state is Unknown or Game.
C31_BucketsMatchState == [][C31_Step]_vars

C32_Step(a) ==
    (Disconnect(a) \/ handle_connection_duplicate(a)) =>
        /\ peers' = peers \ {a}
        /\ a \in peers => state' = [state EXCEPT ![a] = Unknown]
        /\ a \notin peers => UNCHANGED <<peers, buckets, peer_fields, game_side>>

\* C32: remove_peer(addr) deletes the address from the primary map and, if it
\* was there, sets that peer's state to Unknown and no other peer's; removing
\* an address that is not in the map (a second removal) changes nothing.
C32_Remove == [][\A a \in Addrs : C32_Step(a)]_vars

\* one registered peer was removed when its connection closed, and another
\* address was removed by a second connection while its first connection, whose
\* own removal is still to come, is open
C32_Witness ==
    \E a, b \in Seats :
       /\ conn[a] = "closed" /\ a \notin peers /\ a \in mm_queue /\ state[a] = Unknown
       /\ conn[b] = "open" /\ b \notin peers /\ b \in idle /\ state[b] = Unknown

C33_Step(g) ==
    LET gm == games[g + 1]
    IN  (first_update(g) \/ (reaches_broadcast(g) /\ turn(g))) =>
           \A a \in connected_seats(gm) :
              /\ Len(tx'[a]) = 1
              /\ tx'[a][1].pdu = "game_session.update"

\* C33: Game::broadcast delivers the message to every seat whose connection is
\* open, whichever other seats' sends fail: each Update the driver broadcasts,
\* the first one included, is enqueued once to every reachable seat.
C33_BroadcastReachesAll == [][\A g \in Games : C33_Step(g)]_vars

\* C34: reconnect ids are unique: the four ids of a game are pairwise distinct
\* and differ from those of every other game, and the reconnect map holds
\* exactly four entries for each game, none overwritten.
C34_UniqueTokens ==
    \A g \in Games :
       LET ids == games[g + 1].reconnect_id
       IN  /\ \A c, d \in Color : c # d => ids[c] # ids[d]
           /\ \A h \in Games \ {g} : \A c, d \in Color : ids[c] # games[h + 1].reconnect_id[d]
           /\ Cardinality({k \in DOMAIN reconnect : reconnect[k] = g}) = GROUP

\* the driver task of game g has ended: it returned, failed or panicked
driver_exited(g) == drivers[g + 1].pc \in {"done", "failed", "panicked"}

\* C35: a game is destroyed when its turn driver exits: it is no longer in the
\* games map and no entry of the reconnect map leads to it.
C35_GameDestroyed ==
    \A g \in Games :
       driver_exited(g) =>
          /\ \A i \in DOMAIN games : games[i].id # g
          /\ \A k \in DOMAIN reconnect : reconnect[k] # g

\* C38: the driver's extra drain never blocks: whenever the timer branch finds
\* a recorded move the signal channel holds at least one item, so the driver
\* is never left waiting on an empty channel with the locks held.
C38_DrainNeverBlocks ==
    \A g \in Games :
       /\ drivers[g + 1].pc # "blocked"
       /\ (drivers[g + 1].pc = "timeout" /\ is_some(unwrap(games[g + 1].who_move).complete))
             => games[g + 1].signal >= 1

\* the timer has fired with a move recorded, and its signal is in the channel
C38_Witness ==
    \E g \in Games :
       /\ drivers[g + 1].pc = "timeout"
       /\ is_some(unwrap(games[g + 1].who_move).complete)
       /\ games[g + 1].signal >= 1

\* C39: every peer of the primary map whose state is Idle, MMQueue,
\* HeartbeatWait or HeartbeatReady is in the bucket of that state, whatever
\* handlers, PlayerLeave included, and dispatcher ticks have run.
C39_InOwnBucket ==
    \A a \in peers :
       /\ state[a].k = "Idle" => a \in idle
       /\ state[a].k = "MMQueue" => a \in mm_queue
       /\ state[a].k = "HeartbeatWait" => a \in hb_wait
       /\ state[a].k = "HeartbeatReady" => a \in hb_ready

\* a peer that a tick promoted to HeartbeatWait and that then left the queue is
\* Idle and in the Idle bucket, while another peer waits for the heartbeat
C39_Witness ==
    \E a, b \in peers :
       /\ state[a] = Idle /\ a \in idle /\ a \in hb_wait
       /\ is_hb_wait(state[b]) /\ b \in hb_wait

\* C40: every peer whose state is MMQueue, HeartbeatWait, HeartbeatReady or
\* Game has a player name, so the dispatcher's unwrap of the names of the
\* peers it seats never fails.
C40_Named ==
    \A a \in Addrs :
       state[a].k \in {"MMQueue", "HeartbeatWait", "HeartbeatReady", "Game"} =>
          is_some(player_name[a])

\* the dispatcher has just seated four named peers and sent them the Init frame
C40_Witness ==
    /\ Len(games) = 1
    /\ \A c \in Color :
          /\ is_some(player_name[games[1].peer[c]])
          /\ is_game(state[games[1].peer[c]])
    /\ \E a \in Addrs : Inits(tx[a]) # {}

\* the kinds of lock a task must not take after a peer's: the four buckets' and
\* a game's
after_peer_forbidden == {"idle", "mm_queue", "hb_wait", "hb_ready", "game"}
\* the locks task t takes in the step
taken(t) == {h.l : h \in task'[t].held \ task[t].held}
\* task t holds the lock of some peer
holds_peer(t) == \E h \in task[t].held : h.l[1] = "peer"

C36_Step(t) ==
    (holds_peer(t) /\ step(t)) => \A l \in taken(t) : l[1] \notin after_peer_forbidden

\* C36: locks are taken in the order registry, bucket, game, peer: no task
\* takes the lock of a bucket or of a game while it holds the lock of a peer.
C36_LockOrder == [][\A t \in Tasks : C36_Step(t)]_vars

\* task t is in an operation that has not returned
busy(t) == task[t].op # "-"
\* task t is at a lock that another task holds
waits_for(t, u) ==
    /\ task[t].todo # << >>
    /\ Head(task[t].todo).do = "lock"
    /\ \E h \in task[u].held : h.l = Head(task[t].todo).l

\* C37: the locking is free of deadlock and every lock acquisition eventually
\* succeeds: each operation a task starts takes all its locks and returns.
C37_Progress == \A t \in Tasks : busy(t) ~> ~busy(t)

\* a connection's handler waits for the registry lock while the turn driver,
\* inside its locked block, holds it together with the game's and a peer's lock
C37_Witness ==
    \E t \in Tasks :
       /\ t[1] = "conn"
       /\ waits_for(t, <<"driver", 0>>)
       /\ [l |-> game_lock(0), mode |-> "lock"] \in task[<<"driver", 0>>].held
       /\ holds_peer(<<"driver", 0>>)

====
